---- MODULE Spec2Model ----
(***************************************************************************)
(* BridgePay (contracts/BridgePay.sol): deferred settlement of offline     *)
(* signed transfers.  A relayer registers a signed authorization           *)
(* (submitOfflineTx); after the dispute window a relayer finalizes it      *)
(* (finalizeTx), or an involved party disputes it inside the window        *)
(* (disputeTx), or three multisig signers force it after a longer delay    *)
(* (forceFinalize).  Each external call of the contract is one atomic      *)
(* action; a call that reverts leaves the contract's storage unchanged.    *)
(* Time is counted in days.                                                *)
(*                                                                         *)
(* Spec     the calls over a mixed set of authorizations and signatures.   *)
(* SpecE    several authorizations of one sender pending together.         *)
(* SpecCap  the gated calls while the admin grants and revokes roles.      *)
(* SpecR    withdraw taken apart at its transfer, with the calls the       *)
(*          payee's code can make back into the contract.                  *)
(* SpecP    the relay server (server/src/index.ts): authorizations posted  *)
(*          to /offline/tx and overlapping /sync/push requests, each step  *)
(*          of a handler between two awaits being one action.              *)
(* SpecQ    the file-backed offline queue (server/src/server.js):          *)
(*          overlapping /api/transaction/queue and /api/transaction/sync   *)
(*          requests, each read and each write of a file being one action. *)
(***************************************************************************)
EXTENDS Integers, Sequences, FiniteSets, TLC

\* ------------------------------------------------------------- bounds
\* Cap on the ether the contract holds (guard of deposit in the model).
MaxFunds == 2

\* ---------------------------------------------------------- constants
ZERO == 0
NoSigner == -1
Addr == {1, 2, 3}
Deployer == 1

DISPUTE_WINDOW == 7
FORCE_FINALIZE_DELAY == 14
MULTISIG_THRESHOLD == 3

DEFAULT_ADMIN_ROLE == "DEFAULT_ADMIN_ROLE"
RELAYER_ROLE == "RELAYER_ROLE"
MULTISIG_ROLE == "MULTISIG_ROLE"
Roles == {DEFAULT_ADMIN_ROLE, RELAYER_ROLE, MULTISIG_ROLE}

OFFLINE_TX_TYPEHASH ==
    "OfflineTransaction(address from,address to,uint256 amount,uint256 nonce,uint256 expiry,bytes32 clientTxId)"

TxStatus == {"PENDING", "FINALIZED", "REJECTED", "AUTO_FINALIZED"}
Terminal == {"FINALIZED", "REJECTED", "AUTO_FINALIZED"}

\* Revert reasons of the contract; OK is a call that returned.
OK == "OK"
ErrMissingRole == "AccessControl: account is missing role"
ErrInvalidRecipient == "Invalid recipient"
ErrInvalidAmount == "Amount must be > 0"
ErrExpired == "Transaction expired"
ErrTokenUsed == "ClientTxId already used"
ErrInvalidNonce == "Invalid nonce"
ErrInvalidSignature == "Invalid signature"
ErrDuplicate == "Transaction already exists"
ErrNotFound == "Transaction not found"
ErrNotPending == "Transaction not pending"
ErrWindowActive == "Dispute window active"
ErrWindowClosed == "Dispute window closed"
ErrInsufficient == "Insufficient balance"
ErrDelay == "14-day delay not elapsed"
ErrAlreadySigned == "Already signed"
ErrNotParty == "Only involved parties can dispute"
ErrReentrant == "ReentrancyGuard: reentrant call"
\* The call ran out of the gas it was given.
ErrOutOfGas == "out of gas"

\* ------------------------------------------------------ input domains
\* Block timestamps the calls are made at, in days.
TimePoints == {0, 3, 7, 14}

\* The offline authorizations (from, to, amount, nonce, expiry, clientTxId)
\* the relayers are handed.
Payload(f, t, a, n, e, c) ==
    [from |-> f, to |-> t, amount |-> a, nonce |-> n, expiry |-> e, clientTxId |-> c]

Payloads ==
    { Payload(2, 3, 2, 0, 14, 1),    \* ordinary transfer
      Payload(2, 3, 1, 0, 14, 1),    \* token 1 again, another amount
      Payload(2, 3, 1, 1, 14, 2),    \* the sender's next nonce
      Payload(3, 3, 1, 0, 7, 2),     \* sender = recipient, expiry at the window's end
      Payload(2, 3, 1, 0, 2, 2),     \* expiry inside the dispute window
      Payload(2, ZERO, 1, 0, 14, 1), \* no recipient
      Payload(2, 3, 0, 0, 14, 1) }   \* no amount

\* The payloads that pass the recipient and amount checks.
WellFormed == {p \in Payloads : p.to # ZERO /\ p.amount > 0}

\* Authorizations of one sender that can be pending together: two declare
\* nonce 0 under different tokens, the third declares nonce 1.
ScenarioE ==
    { Payload(2, 3, 2, 0, 14, 1),
      Payload(2, 3, 1, 0, 14, 3),
      Payload(2, 3, 1, 1, 14, 2) }

Tokens == {p.clientTxId : p \in Payloads \cup ScenarioE}

\* ------------------------------------------------------------- hashing
\* keccak256(abi.encodePacked(...)) of six fixed-width fields: the packed
\* encoding is injective and keccak256 is taken collision-free, so the
\* hash is the tuple of the fields.
TxHashOf(p) == <<p.from, p.to, p.amount, p.nonce, p.expiry, p.clientTxId>>

\* A hash no registration produces.
UnknownHash == <<ZERO, ZERO, 0, 0, 0, 0>>

TxHashes == {TxHashOf(p) : p \in WellFormed \cup ScenarioE} \cup {UnknownHash}

\* EIP-712: the domain separator binds name, version, chain id and the
\* contract's own address.
Domain(chain, contract) ==
    [name |-> "BridgePay", version |-> "1", chainId |-> chain, verifyingContract |-> contract]

ThisDomain == Domain(1, 9)
OtherDomain == Domain(2, 9)

\* Domains that differ from this contract's in one component: the chain id,
\* the contract's address, the name, the version.
OtherDomains ==
    { OtherDomain,
      Domain(1, 8),
      [ThisDomain EXCEPT !.name = "BridgePayV2"],
      [ThisDomain EXCEPT !.version = "2"] }

StructHash(p) ==
    <<OFFLINE_TX_TYPEHASH, p.from, p.to, p.amount, p.nonce, p.expiry, p.clientTxId>>

HashTypedDataV4(domain, structHash) == <<"\\x19\\x01", domain, structHash>>

\* A signature is the signer's key applied to a digest; recovering it
\* against the digest it was made over gives the signer, against any other
\* digest an unrelated address.
Sign(signer, digest) == [signer |-> signer, digest |-> digest]

Recover_IgnoresDigest(digest, signature) == signature.signer

Recover(digest, signature) ==
    IF signature.digest = digest THEN signature.signer ELSE NoSigner

\* The signature the sender made over payload p for this contract.
SignatureOf(p) == Sign(p.from, HashTypedDataV4(ThisDomain, StructHash(p)))

\* The payloads that differ from p in exactly one field.
OtherFields(p) ==
    { [p EXCEPT !.from = IF @ = 2 THEN 3 ELSE 2],
      [p EXCEPT !.to = IF @ = 3 THEN 2 ELSE 3],
      [p EXCEPT !.amount = @ + 1],
      [p EXCEPT !.nonce = @ + 1],
      [p EXCEPT !.expiry = @ + 1],
      [p EXCEPT !.clientTxId = @ + 1] }

\* Signatures that are not the sender's over p for this contract: another
\* signer, another domain, another amount.
ForgedFor(p) ==
    { Sign(Deployer, HashTypedDataV4(ThisDomain, StructHash(p))),
      Sign(p.from, HashTypedDataV4(OtherDomain, StructHash(p))),
      Sign(p.from, HashTypedDataV4(ThisDomain, StructHash([p EXCEPT !.amount = @ + 1]))) }

\* Every way a signature can fail to be the sender's over p for this
\* contract: any other signer, any other domain, another value of any one
\* field.
Forgeries(p) ==
    {Sign(a, HashTypedDataV4(ThisDomain, StructHash(p))) : a \in Addr \ {p.from}}
    \cup {Sign(p.from, HashTypedDataV4(d, StructHash(p))) : d \in OtherDomains}
    \cup {Sign(p.from, HashTypedDataV4(ThisDomain, StructHash(q))) : q \in OtherFields(p)}

\* The signatures a relayer may present with payload p.
SignaturesFor(p) ==
    IF p = Payload(2, 3, 2, 0, 14, 1) THEN {SignatureOf(p)} \cup ForgedFor(p)
    ELSE {SignatureOf(p)}

\* --------------------------------------------------------------- state
VARIABLES
    now,               \* block.timestamp
    balances,          \* mapping(address => uint256)
    nonces,            \* mapping(address => uint256)
    transactions,      \* mapping(bytes32 => Transaction)
    clientTxIdUsed,    \* mapping(bytes32 => bool)
    forceFinalizeSigs, \* mapping(bytes32 => address[])
    roles,             \* AccessControl: role => members
    reentrancyStatus,  \* ReentrancyGuard: the lock of the nonReentrant functions
    payout,            \* the withdraw whose transfer to msg.sender is under way
    relayTransactions, \* relay server: the Transaction collection, in insertion order
    pushes,            \* relay server: the /sync/push requests being handled
    minedTxs,          \* the contract calls of the relay server mined so far
    contractBalance,   \* address(this).balance: the ether deposited less the ether paid out
    OFFLINE_QUEUE_FILE,       \* server.js: the content of offline_transactions.json
    TRANSACTION_HISTORY_FILE, \* server.js: the content of transaction_history.json
    requests,          \* server.js: the queue and sync requests being handled
    responses,         \* server.js: the transaction ids /api/transaction/queue answered with success
    uuids              \* server.js: the ids uuidv4() has handed out

store == <<balances, nonces, transactions, clientTxIdUsed, forceFinalizeSigs>>
relay == <<relayTransactions, pushes, minedTxs>>
files == <<OFFLINE_QUEUE_FILE, TRANSACTION_HISTORY_FILE, requests, responses, uuids>>
vars == <<now, balances, nonces, transactions, clientTxIdUsed, forceFinalizeSigs, roles,
          reentrancyStatus, payout, relayTransactions, pushes, minedTxs, contractBalance,
          OFFLINE_QUEUE_FILE, TRANSACTION_HISTORY_FILE, requests, responses, uuids>>

\* The value of an unwritten mapping slot.
EmptyTx ==
    [from |-> ZERO, to |-> ZERO, amount |-> 0, nonce |-> 0, expiry |-> 0, clientTxId |-> 0,
     submittedAt |-> 0, finalizedAt |-> 0, status |-> "PENDING", relayer |-> ZERO]

\* No withdraw is paying out.
NoPayout == [caller |-> ZERO, amount |-> 0, startBalance |-> 0]

\* The most records the relay server is handed.
MaxQueued == 2

\* The /sync/push requests the server can be handling at once: the handler
\* is async and yields at every await.
Handlers == {1, 2}

\* The account of the server's PRIVATE_KEY: by default the first Hardhat
\* account, which deploys the contract.
Wallet == Deployer

\* The server's EIP-712 domain, configured for this contract.
ServerDomain == ThisDomain

\* No receipt at hand.
NoReceipt == 0

\* A handler with no request.
IdlePush == [pc |-> "idle", pendingTxs |-> << >>, results |-> << >>, receipt |-> NoReceipt]

\* Cap on the transactions posted to /api/transaction/queue.
MaxUuids == 2

Requests == {1, 2}

IdleRequest == [pc |-> "idle", queue |-> << >>, history |-> << >>, transaction |-> 0]

Init ==
    /\ now = 0
    /\ balances = [a \in Addr |-> 0]
    /\ nonces = [a \in Addr |-> 0]
    /\ transactions = [h \in TxHashes |-> EmptyTx]
    /\ clientTxIdUsed = [c \in Tokens |-> FALSE]
    /\ forceFinalizeSigs = [h \in TxHashes |-> << >>]
    /\ roles = [r \in Roles |-> {Deployer}]
    /\ reentrancyStatus = "NOT_ENTERED"
    /\ payout = NoPayout
    /\ relayTransactions = << >>
    /\ pushes = [j \in Handlers |-> IdlePush]
    /\ minedTxs = 0
    /\ contractBalance = 0
    /\ OFFLINE_QUEUE_FILE = << >>
    /\ TRANSACTION_HISTORY_FILE = << >>
    /\ requests = [r \in Requests |-> IdleRequest]
    /\ responses = {}
    /\ uuids = 0

HasRole(role, account) == account \in roles[role]

\* The modifier nonReentrant: a call that finds the lock taken reverts.
NonReentrantErr == IF reentrancyStatus = "ENTERED" THEN ErrReentrant ELSE OK

\* payable(msg.sender).transfer(amount) gives the payee's code 2300 gas:
\* a call it makes back into the contract cannot carry value nor write to
\* storage, and runs out of gas where it would.
InPayout == payout # NoPayout

RECURSIVE SumOver(_, _)
SumOver(f, S) ==
    IF S = {} THEN 0
    ELSE LET x == CHOOSE y \in S : TRUE IN f[x] + SumOver(f, S \ {x})

TotalBalance == SumOver(balances, Addr)

GetBalance(user) == balances[user]

\* ------------------------------------------------------------- deposit
DepositErr(caller, value) ==
    IF ~(value > 0) THEN ErrInvalidAmount
    ELSE IF InPayout THEN ErrOutOfGas
    ELSE OK

Deposit_CreditsDeployer(caller, value) ==
    /\ TotalBalance + value <= MaxFunds
    /\ IF DepositErr(caller, value) = OK
       THEN /\ balances' = [balances EXCEPT ![Deployer] = @ + value]
            /\ contractBalance' = contractBalance + value
       ELSE UNCHANGED <<balances, contractBalance>>
    /\ UNCHANGED <<now, nonces, transactions, clientTxIdUsed, forceFinalizeSigs, roles,
                 reentrancyStatus, payout, relay, files>>

Deposit(caller, value) ==
    /\ TotalBalance + value <= MaxFunds
    /\ IF DepositErr(caller, value) = OK
       THEN /\ balances' = [balances EXCEPT ![caller] = @ + value]
            /\ contractBalance' = contractBalance + value
       ELSE UNCHANGED <<balances, contractBalance>>
    /\ UNCHANGED <<now, nonces, transactions, clientTxIdUsed, forceFinalizeSigs, roles,
                 reentrancyStatus, payout, relay, files>>

\* ------------------------------------------------------------ withdraw
WithdrawErr(caller, amount) ==
    IF NonReentrantErr # OK THEN ErrReentrant
    ELSE IF ~(balances[caller] >= amount) THEN ErrInsufficient
    ELSE OK

Withdraw(caller, amount) ==
    /\ IF WithdrawErr(caller, amount) = OK
       THEN /\ balances' = [balances EXCEPT ![caller] = @ - amount]
            /\ contractBalance' = contractBalance - amount
       ELSE UNCHANGED <<balances, contractBalance>>
    /\ UNCHANGED <<now, nonces, transactions, clientTxIdUsed, forceFinalizeSigs, roles,
                 reentrancyStatus, payout, relay, files>>

BalancesAtPayout_NotYetDebited(caller, amount) == balances

\* balances[msg.sender] -= amount, which precedes the transfer
BalancesAtPayout(caller, amount) == [balances EXCEPT ![caller] = @ - amount]

\* withdraw up to its transfer: the lock is taken, the balance is checked
\* and debited, and the payee's code starts to run.
WithdrawCall(caller, amount) ==
    /\ IF WithdrawErr(caller, amount) = OK
       THEN /\ reentrancyStatus' = "ENTERED"
            /\ balances' = BalancesAtPayout(caller, amount)
            /\ payout' = [caller |-> caller, amount |-> amount,
                          startBalance |-> balances[caller]]
            /\ contractBalance' = contractBalance - amount
       ELSE UNCHANGED <<reentrancyStatus, balances, payout, contractBalance>>
    /\ UNCHANGED <<now, nonces, transactions, clientTxIdUsed, forceFinalizeSigs, roles, relay,
                 files>>

\* The payee accepts the ether: withdraw returns and releases the lock.
PayoutReturns ==
    /\ InPayout
    /\ reentrancyStatus' = "NOT_ENTERED"
    /\ payout' = NoPayout
    /\ UNCHANGED <<now, balances, nonces, transactions, clientTxIdUsed, forceFinalizeSigs,
                 roles, relay, contractBalance, files>>

\* The payee's code throws or runs out of gas: transfer reverts and with it
\* the whole withdraw, the debit and the lock included.
PayoutReverts ==
    /\ InPayout
    /\ balances' = [balances EXCEPT ![payout.caller] = payout.startBalance]
    /\ contractBalance' = contractBalance + payout.amount
    /\ reentrancyStatus' = "NOT_ENTERED"
    /\ payout' = NoPayout
    /\ UNCHANGED <<now, nonces, transactions, clientTxIdUsed, forceFinalizeSigs, roles, relay,
                 files>>

\* ----------------------------------------------------- submitOfflineTx
SubmitOfflineTxErr_NoTokenCheck(caller, p, signature) ==
    IF ~HasRole(RELAYER_ROLE, caller) THEN ErrMissingRole
    ELSE IF ~(p.to # ZERO) THEN ErrInvalidRecipient
    ELSE IF ~(p.amount > 0) THEN ErrInvalidAmount
    ELSE IF ~(p.expiry > now) THEN ErrExpired
    ELSE IF ~(nonces[p.from] = p.nonce) THEN ErrInvalidNonce
    ELSE IF ~(Recover(HashTypedDataV4(ThisDomain, StructHash(p)), signature) = p.from)
         THEN ErrInvalidSignature
    ELSE IF ~(transactions[TxHashOf(p)].from = ZERO) THEN ErrDuplicate
    ELSE IF InPayout THEN ErrOutOfGas
    ELSE OK

SubmitOfflineTxErr_DuplicateFirst(caller, p, signature) ==
    IF ~HasRole(RELAYER_ROLE, caller) THEN ErrMissingRole
    ELSE IF ~(p.to # ZERO) THEN ErrInvalidRecipient
    ELSE IF ~(p.amount > 0) THEN ErrInvalidAmount
    ELSE IF ~(p.expiry > now) THEN ErrExpired
    ELSE IF ~(transactions[TxHashOf(p)].from = ZERO) THEN ErrDuplicate
    ELSE IF clientTxIdUsed[p.clientTxId] THEN ErrTokenUsed
    ELSE IF ~(nonces[p.from] = p.nonce) THEN ErrInvalidNonce
    ELSE IF ~(Recover(HashTypedDataV4(ThisDomain, StructHash(p)), signature) = p.from)
         THEN ErrInvalidSignature
    ELSE IF InPayout THEN ErrOutOfGas
    ELSE OK

SubmitOfflineTxErr_ChecksBalance(caller, p, signature) ==
    IF ~HasRole(RELAYER_ROLE, caller) THEN ErrMissingRole
    ELSE IF ~(p.to # ZERO) THEN ErrInvalidRecipient
    ELSE IF ~(p.amount > 0) THEN ErrInvalidAmount
    ELSE IF ~(p.expiry > now) THEN ErrExpired
    ELSE IF clientTxIdUsed[p.clientTxId] THEN ErrTokenUsed
    ELSE IF ~(nonces[p.from] = p.nonce) THEN ErrInvalidNonce
    ELSE IF ~(Recover(HashTypedDataV4(ThisDomain, StructHash(p)), signature) = p.from)
         THEN ErrInvalidSignature
    ELSE IF ~(transactions[TxHashOf(p)].from = ZERO) THEN ErrDuplicate
    ELSE IF ~(balances[p.from] >= p.amount) THEN ErrInsufficient
    ELSE IF InPayout THEN ErrOutOfGas
    ELSE OK

SubmitOfflineTxErr_NonceBeforeToken(caller, p, signature) ==
    IF ~HasRole(RELAYER_ROLE, caller) THEN ErrMissingRole
    ELSE IF ~(p.to # ZERO) THEN ErrInvalidRecipient
    ELSE IF ~(p.amount > 0) THEN ErrInvalidAmount
    ELSE IF ~(p.expiry > now) THEN ErrExpired
    ELSE IF ~(nonces[p.from] = p.nonce) THEN ErrInvalidNonce
    ELSE IF clientTxIdUsed[p.clientTxId] THEN ErrTokenUsed
    ELSE IF ~(Recover(HashTypedDataV4(ThisDomain, StructHash(p)), signature) = p.from)
         THEN ErrInvalidSignature
    ELSE IF ~(transactions[TxHashOf(p)].from = ZERO) THEN ErrDuplicate
    ELSE IF InPayout THEN ErrOutOfGas
    ELSE OK

SubmitOfflineTxErr_ExpiryCoversWindow(caller, p, signature) ==
    IF ~HasRole(RELAYER_ROLE, caller) THEN ErrMissingRole
    ELSE IF ~(p.to # ZERO) THEN ErrInvalidRecipient
    ELSE IF ~(p.amount > 0) THEN ErrInvalidAmount
    ELSE IF ~(p.expiry >= now + DISPUTE_WINDOW) THEN ErrExpired
    ELSE IF clientTxIdUsed[p.clientTxId] THEN ErrTokenUsed
    ELSE IF ~(nonces[p.from] = p.nonce) THEN ErrInvalidNonce
    ELSE IF ~(Recover(HashTypedDataV4(ThisDomain, StructHash(p)), signature) = p.from)
         THEN ErrInvalidSignature
    ELSE IF ~(transactions[TxHashOf(p)].from = ZERO) THEN ErrDuplicate
    ELSE IF InPayout THEN ErrOutOfGas
    ELSE OK

SubmitOfflineTxErr_NoNonceCheck(caller, p, signature) ==
    IF ~HasRole(RELAYER_ROLE, caller) THEN ErrMissingRole
    ELSE IF ~(p.to # ZERO) THEN ErrInvalidRecipient
    ELSE IF ~(p.amount > 0) THEN ErrInvalidAmount
    ELSE IF ~(p.expiry > now) THEN ErrExpired
    ELSE IF clientTxIdUsed[p.clientTxId] THEN ErrTokenUsed
    ELSE IF ~(Recover(HashTypedDataV4(ThisDomain, StructHash(p)), signature) = p.from)
         THEN ErrInvalidSignature
    ELSE IF ~(transactions[TxHashOf(p)].from = ZERO) THEN ErrDuplicate
    ELSE IF InPayout THEN ErrOutOfGas
    ELSE OK

SubmitOfflineTxErr(caller, p, signature) ==
    IF ~HasRole(RELAYER_ROLE, caller) THEN ErrMissingRole
    ELSE IF ~(p.to # ZERO) THEN ErrInvalidRecipient
    ELSE IF ~(p.amount > 0) THEN ErrInvalidAmount
    ELSE IF ~(p.expiry > now) THEN ErrExpired
    ELSE IF clientTxIdUsed[p.clientTxId] THEN ErrTokenUsed
    ELSE IF ~(nonces[p.from] = p.nonce) THEN ErrInvalidNonce
    ELSE IF ~(Recover(HashTypedDataV4(ThisDomain, StructHash(p)), signature) = p.from)
         THEN ErrInvalidSignature
    ELSE IF ~(transactions[TxHashOf(p)].from = ZERO) THEN ErrDuplicate
    ELSE IF InPayout THEN ErrOutOfGas
    ELSE OK

NewTransaction_RelayerIsSender(caller, p) ==
    [from |-> p.from, to |-> p.to, amount |-> p.amount, nonce |-> p.nonce,
     expiry |-> p.expiry, clientTxId |-> p.clientTxId, submittedAt |-> now,
     finalizedAt |-> 0, status |-> "PENDING", relayer |-> p.from]

NewTransaction(caller, p) ==
    [from |-> p.from, to |-> p.to, amount |-> p.amount, nonce |-> p.nonce,
     expiry |-> p.expiry, clientTxId |-> p.clientTxId, submittedAt |-> now,
     finalizedAt |-> 0, status |-> "PENDING", relayer |-> caller]

SubmitOfflineTx_TokenNotMarked(caller, p, signature) ==
    /\ IF SubmitOfflineTxErr(caller, p, signature) = OK
       THEN transactions' = [transactions EXCEPT ![TxHashOf(p)] = NewTransaction(caller, p)]
       ELSE UNCHANGED transactions
    /\ UNCHANGED <<now, balances, nonces, clientTxIdUsed, forceFinalizeSigs, roles,
                 reentrancyStatus, payout, relay, contractBalance, files>>

SubmitOfflineTx(caller, p, signature) ==
    /\ IF SubmitOfflineTxErr(caller, p, signature) = OK
       THEN /\ transactions' = [transactions EXCEPT ![TxHashOf(p)] = NewTransaction(caller, p)]
            /\ clientTxIdUsed' = [clientTxIdUsed EXCEPT ![p.clientTxId] = TRUE]
       ELSE UNCHANGED <<transactions, clientTxIdUsed>>
    /\ UNCHANGED <<now, balances, nonces, forceFinalizeSigs, roles,
                 reentrancyStatus, payout, relay, contractBalance, files>>

\* ---------------------------------------------------------- finalizeTx
MoveFunds_CreditOnly(bal, from, to, amount) == [bal EXCEPT ![to] = @ + amount]

\* balances[tx.from] -= tx.amount; balances[tx.to] += tx.amount
MoveFunds_DebitOnly(bal, from, to, amount) == [bal EXCEPT ![from] = @ - amount]

MoveFunds(bal, from, to, amount) ==
    LET debited == [bal EXCEPT ![from] = @ - amount]
    IN  [debited EXCEPT ![to] = @ + amount]

IncNonce_Forgotten(n, from) == n

IncNonce_Twice(n, from) == [n EXCEPT ![from] = @ + 2]

\* nonces[tx.from]++
IncNonce(n, from) == [n EXCEPT ![from] = @ + 1]

Resolve_RestampsRegistration(txs, txHash, status) ==
    [txs EXCEPT ![txHash].status = status, ![txHash].finalizedAt = now,
                ![txHash].submittedAt = now]

\* tx.status = ...; tx.finalizedAt = block.timestamp
Resolve(txs, txHash, status) ==
    [txs EXCEPT ![txHash].status = status, ![txHash].finalizedAt = now]

WindowElapsed_Exclusive(tx, t) == t > tx.submittedAt + DISPUTE_WINDOW

\* The time gate of finalizeTx: block.timestamp >= tx.submittedAt + DISPUTE_WINDOW
WindowElapsed(tx, t) == t >= tx.submittedAt + DISPUTE_WINDOW

FinalizeTxErr_NoPendingCheck(caller, txHash) ==
    LET tx == transactions[txHash] IN
    IF ~HasRole(RELAYER_ROLE, caller) THEN ErrMissingRole
    ELSE IF NonReentrantErr # OK THEN ErrReentrant
    ELSE IF ~(tx.from # ZERO) THEN ErrNotFound
    ELSE IF ~(now <= tx.expiry) THEN ErrExpired
    ELSE IF ~WindowElapsed(tx, now) THEN ErrWindowActive
    ELSE IF ~(balances[tx.from] >= tx.amount) THEN ErrInsufficient
    ELSE OK

FinalizeTxErr_NoRoleCheck(caller, txHash) ==
    LET tx == transactions[txHash] IN
    IF NonReentrantErr # OK THEN ErrReentrant
    ELSE IF ~(tx.from # ZERO) THEN ErrNotFound
    ELSE IF ~(tx.status = "PENDING") THEN ErrNotPending
    ELSE IF ~(now <= tx.expiry) THEN ErrExpired
    ELSE IF ~WindowElapsed(tx, now) THEN ErrWindowActive
    ELSE IF ~(balances[tx.from] >= tx.amount) THEN ErrInsufficient
    ELSE OK

FinalizeTxErr_ChecksNonce(caller, txHash) ==
    LET tx == transactions[txHash] IN
    IF ~HasRole(RELAYER_ROLE, caller) THEN ErrMissingRole
    ELSE IF NonReentrantErr # OK THEN ErrReentrant
    ELSE IF ~(tx.from # ZERO) THEN ErrNotFound
    ELSE IF ~(tx.status = "PENDING") THEN ErrNotPending
    ELSE IF ~(now <= tx.expiry) THEN ErrExpired
    ELSE IF ~WindowElapsed(tx, now) THEN ErrWindowActive
    ELSE IF ~(nonces[tx.from] = tx.nonce) THEN ErrInvalidNonce
    ELSE IF ~(balances[tx.from] >= tx.amount) THEN ErrInsufficient
    ELSE OK

FinalizeTxErr_WindowBeforeExpiry(caller, txHash) ==
    LET tx == transactions[txHash] IN
    IF ~HasRole(RELAYER_ROLE, caller) THEN ErrMissingRole
    ELSE IF NonReentrantErr # OK THEN ErrReentrant
    ELSE IF ~(tx.from # ZERO) THEN ErrNotFound
    ELSE IF ~(tx.status = "PENDING") THEN ErrNotPending
    ELSE IF ~WindowElapsed(tx, now) THEN ErrWindowActive
    ELSE IF ~(now <= tx.expiry) THEN ErrExpired
    ELSE IF ~(balances[tx.from] >= tx.amount) THEN ErrInsufficient
    ELSE OK

FinalizeTxErr(caller, txHash) ==
    LET tx == transactions[txHash] IN
    IF ~HasRole(RELAYER_ROLE, caller) THEN ErrMissingRole
    ELSE IF NonReentrantErr # OK THEN ErrReentrant
    ELSE IF ~(tx.from # ZERO) THEN ErrNotFound
    ELSE IF ~(tx.status = "PENDING") THEN ErrNotPending
    ELSE IF ~(now <= tx.expiry) THEN ErrExpired
    ELSE IF ~WindowElapsed(tx, now) THEN ErrWindowActive
    ELSE IF ~(balances[tx.from] >= tx.amount) THEN ErrInsufficient
    ELSE OK

FinalizeTx_RejectsOnInsufficient(caller, txHash) ==
    LET tx == transactions[txHash] IN
    /\ IF FinalizeTxErr(caller, txHash) = OK
       THEN /\ balances' = MoveFunds(balances, tx.from, tx.to, tx.amount)
            /\ transactions' = Resolve(transactions, txHash, "FINALIZED")
            /\ nonces' = IncNonce(nonces, tx.from)
       ELSE IF FinalizeTxErr(caller, txHash) = ErrInsufficient
       THEN /\ transactions' = [transactions EXCEPT ![txHash].status = "REJECTED"]
            /\ UNCHANGED <<balances, nonces>>
       ELSE UNCHANGED <<balances, transactions, nonces>>
    /\ UNCHANGED <<now, clientTxIdUsed, forceFinalizeSigs, roles, reentrancyStatus, payout, relay, contractBalance,
                 files>>

FinalizeTx(caller, txHash) ==
    LET tx == transactions[txHash] IN
    /\ IF FinalizeTxErr(caller, txHash) = OK
       THEN /\ balances' = MoveFunds(balances, tx.from, tx.to, tx.amount)
            /\ transactions' = Resolve(transactions, txHash, "FINALIZED")
            /\ nonces' = IncNonce(nonces, tx.from)
       ELSE UNCHANGED <<balances, transactions, nonces>>
    /\ UNCHANGED <<now, clientTxIdUsed, forceFinalizeSigs, roles, reentrancyStatus, payout, relay, contractBalance,
                 files>>

\* ------------------------------------------------------- forceFinalize
AlreadySigned_FirstOnly(signers, caller) ==
    Len(signers) > 0 /\ signers[1] = caller

\* The loop over the stored signers: does msg.sender already appear?
AlreadySigned(signers, caller) ==
    \E i \in 1..Len(signers) : signers[i] = caller

QuorumReached_OffByOne(signers) == Len(signers) > MULTISIG_THRESHOLD

QuorumReached_OneEarly(signers) == Len(signers) >= MULTISIG_THRESHOLD - 1

\* signers.length >= MULTISIG_THRESHOLD
QuorumReached(signers) == Len(signers) >= MULTISIG_THRESHOLD

ForceFinalizeErr_NoBalanceCheck(caller, txHash) ==
    LET tx == transactions[txHash] IN
    IF ~HasRole(MULTISIG_ROLE, caller) THEN ErrMissingRole
    ELSE IF NonReentrantErr # OK THEN ErrReentrant
    ELSE IF ~(tx.from # ZERO) THEN ErrNotFound
    ELSE IF ~(tx.status = "PENDING") THEN ErrNotPending
    ELSE IF ~(now >= tx.submittedAt + FORCE_FINALIZE_DELAY) THEN ErrDelay
    ELSE IF AlreadySigned(forceFinalizeSigs[txHash], caller) THEN ErrAlreadySigned
    ELSE OK

ForceFinalizeErr_ChecksExpiry(caller, txHash) ==
    LET tx == transactions[txHash]
        signers == Append(forceFinalizeSigs[txHash], caller)
    IN
    IF ~HasRole(MULTISIG_ROLE, caller) THEN ErrMissingRole
    ELSE IF NonReentrantErr # OK THEN ErrReentrant
    ELSE IF ~(tx.from # ZERO) THEN ErrNotFound
    ELSE IF ~(tx.status = "PENDING") THEN ErrNotPending
    ELSE IF ~(now <= tx.expiry) THEN ErrExpired
    ELSE IF ~(now >= tx.submittedAt + FORCE_FINALIZE_DELAY) THEN ErrDelay
    ELSE IF AlreadySigned(forceFinalizeSigs[txHash], caller) THEN ErrAlreadySigned
    ELSE IF QuorumReached(signers) /\ ~(balances[tx.from] >= tx.amount)
         THEN ErrInsufficient
    ELSE OK

ForceFinalizeErr_DisputeDelay(caller, txHash) ==
    LET tx == transactions[txHash]
        signers == Append(forceFinalizeSigs[txHash], caller)
    IN
    IF ~HasRole(MULTISIG_ROLE, caller) THEN ErrMissingRole
    ELSE IF NonReentrantErr # OK THEN ErrReentrant
    ELSE IF ~(tx.from # ZERO) THEN ErrNotFound
    ELSE IF ~(tx.status = "PENDING") THEN ErrNotPending
    ELSE IF ~(now >= tx.submittedAt + DISPUTE_WINDOW) THEN ErrDelay
    ELSE IF AlreadySigned(forceFinalizeSigs[txHash], caller) THEN ErrAlreadySigned
    ELSE IF QuorumReached(signers) /\ ~(balances[tx.from] >= tx.amount)
         THEN ErrInsufficient
    ELSE OK

\* The checks of forceFinalize, the one that follows signers.push included.
ForceFinalizeErr(caller, txHash) ==
    LET tx == transactions[txHash]
        signers == Append(forceFinalizeSigs[txHash], caller)
    IN
    IF ~HasRole(MULTISIG_ROLE, caller) THEN ErrMissingRole
    ELSE IF NonReentrantErr # OK THEN ErrReentrant
    ELSE IF ~(tx.from # ZERO) THEN ErrNotFound
    ELSE IF ~(tx.status = "PENDING") THEN ErrNotPending
    ELSE IF ~(now >= tx.submittedAt + FORCE_FINALIZE_DELAY) THEN ErrDelay
    ELSE IF AlreadySigned(forceFinalizeSigs[txHash], caller) THEN ErrAlreadySigned
    ELSE IF QuorumReached(signers) /\ ~(balances[tx.from] >= tx.amount)
         THEN ErrInsufficient
    ELSE OK

SignersAfter_PushSurvivesRevert(caller, txHash) ==
    IF ForceFinalizeErr(caller, txHash) \in {OK, ErrInsufficient}
    THEN [forceFinalizeSigs EXCEPT ![txHash] = Append(@, caller)]
    ELSE forceFinalizeSigs

\* The ballots the call leaves behind: signers.push(msg.sender), which a
\* revert anywhere in the call undoes (the balance check comes after it).
SignersAfter(caller, txHash) ==
    IF ForceFinalizeErr(caller, txHash) = OK
    THEN [forceFinalizeSigs EXCEPT ![txHash] = Append(@, caller)]
    ELSE forceFinalizeSigs

ForceFinalize(caller, txHash) ==
    LET tx == transactions[txHash]
        signers == Append(forceFinalizeSigs[txHash], caller)
    IN
    /\ forceFinalizeSigs' = SignersAfter(caller, txHash)
    /\ IF ForceFinalizeErr(caller, txHash) = OK /\ QuorumReached(signers)
       THEN /\ balances' = MoveFunds(balances, tx.from, tx.to, tx.amount)
            /\ transactions' = Resolve(transactions, txHash, "AUTO_FINALIZED")
            /\ nonces' = IncNonce(nonces, tx.from)
       ELSE UNCHANGED <<balances, transactions, nonces>>
    /\ UNCHANGED <<now, clientTxIdUsed, roles, reentrancyStatus, payout, relay, contractBalance,
                 files>>

\* ----------------------------------------------------------- disputeTx
WindowOpen_Inclusive(tx, t) == t <= tx.submittedAt + DISPUTE_WINDOW

\* The time gate of disputeTx: block.timestamp < tx.submittedAt + DISPUTE_WINDOW
WindowOpen(tx, t) == t < tx.submittedAt + DISPUTE_WINDOW

DisputeTxErr_NoPartyCheck(caller, txHash) ==
    LET tx == transactions[txHash] IN
    IF ~(tx.from # ZERO) THEN ErrNotFound
    ELSE IF ~(tx.status = "PENDING") THEN ErrNotPending
    ELSE IF ~WindowOpen(tx, now) THEN ErrWindowClosed
    ELSE IF InPayout THEN ErrOutOfGas
    ELSE OK

DisputeTxErr_NoWindowCheck(caller, txHash) ==
    LET tx == transactions[txHash] IN
    IF ~(tx.from # ZERO) THEN ErrNotFound
    ELSE IF ~(tx.status = "PENDING") THEN ErrNotPending
    ELSE IF ~(caller = tx.from \/ caller = tx.to) THEN ErrNotParty
    ELSE IF InPayout THEN ErrOutOfGas
    ELSE OK

DisputeTxErr(caller, txHash) ==
    LET tx == transactions[txHash] IN
    IF ~(tx.from # ZERO) THEN ErrNotFound
    ELSE IF ~(tx.status = "PENDING") THEN ErrNotPending
    ELSE IF ~WindowOpen(tx, now) THEN ErrWindowClosed
    ELSE IF ~(caller = tx.from \/ caller = tx.to) THEN ErrNotParty
    ELSE IF InPayout THEN ErrOutOfGas
    ELSE OK

DisputeTx_StampsResolution(caller, txHash) ==
    /\ IF DisputeTxErr(caller, txHash) = OK
       THEN transactions' = Resolve(transactions, txHash, "REJECTED")
       ELSE UNCHANGED transactions
    /\ UNCHANGED <<now, balances, nonces, clientTxIdUsed, forceFinalizeSigs, roles,
                 reentrancyStatus, payout, relay, contractBalance, files>>

DisputeTx(caller, txHash) ==
    /\ IF DisputeTxErr(caller, txHash) = OK
       THEN transactions' = [transactions EXCEPT ![txHash].status = "REJECTED"]
       ELSE UNCHANGED transactions
    /\ UNCHANGED <<now, balances, nonces, clientTxIdUsed, forceFinalizeSigs, roles,
                 reentrancyStatus, payout, relay, contractBalance, files>>

\* ------------------------------------------- AccessControl.grantRole
\* Every role's admin role is DEFAULT_ADMIN_ROLE.
GrantRoleErr(caller, role, account) ==
    IF ~HasRole(DEFAULT_ADMIN_ROLE, caller) THEN ErrMissingRole
    ELSE IF InPayout THEN ErrOutOfGas
    ELSE OK

GrantRole(caller, role, account) ==
    /\ IF GrantRoleErr(caller, role, account) = OK
       THEN roles' = [roles EXCEPT ![role] = @ \cup {account}]
       ELSE UNCHANGED roles
    /\ UNCHANGED <<now, balances, nonces, transactions, clientTxIdUsed, forceFinalizeSigs,
                 reentrancyStatus, payout, relay, contractBalance, files>>

\* ------------------------------------------ AccessControl.revokeRole
RevokeRoleErr(caller, role, account) ==
    IF ~HasRole(DEFAULT_ADMIN_ROLE, caller) THEN ErrMissingRole
    ELSE IF InPayout THEN ErrOutOfGas
    ELSE OK

RevokeRole(caller, role, account) ==
    /\ IF RevokeRoleErr(caller, role, account) = OK
       THEN roles' = [roles EXCEPT ![role] = @ \ {account}]
       ELSE UNCHANGED roles
    /\ UNCHANGED <<now, balances, nonces, transactions, clientTxIdUsed, forceFinalizeSigs,
                 reentrancyStatus, payout, relay, contractBalance, files>>

\* ------------------------------------------------------------ the clock
Tick(t) ==
    /\ ~InPayout
    /\ t > now
    /\ now' = t
    /\ UNCHANGED <<balances, nonces, transactions, clientTxIdUsed, forceFinalizeSigs, roles,
                 reentrancyStatus, payout, relay, contractBalance, files>>

\* -------------------------------------------------------- relay server
\* The authorizations clients post to the server.
PushPayloads == {Payload(2, 3, 1, 0, 14, 1), Payload(2, 3, 1, 1, 14, 2)}

\* POST /offline/tx: the address and signature checks.
OfflineTxErr(p, signature) ==
    IF ~(Recover(HashTypedDataV4(ServerDomain, StructHash(p)), signature) = p.from)
    THEN ErrInvalidSignature
    ELSE OK

OfflineTx_SkipsKnownToken(p, signature) ==
    /\ Len(relayTransactions) < MaxQueued
    /\ IF /\ OfflineTxErr(p, signature) = OK
          /\ \A i \in 1..Len(relayTransactions) :
                relayTransactions[i].tx.clientTxId # p.clientTxId
       THEN relayTransactions' = Append(relayTransactions,
                [tx |-> p, signature |-> signature, status |-> "PENDING",
                 onChainTxHash |-> NoReceipt])
       ELSE UNCHANGED relayTransactions
    /\ UNCHANGED <<now, store, roles, reentrancyStatus, payout, pushes, minedTxs, contractBalance,
                 files>>

\* POST /offline/tx: a verified authorization is saved with status PENDING
\* under a fresh serverTxId (its position in the collection).
OfflineTx(p, signature) ==
    /\ Len(relayTransactions) < MaxQueued
    /\ IF OfflineTxErr(p, signature) = OK
       THEN relayTransactions' = Append(relayTransactions,
                [tx |-> p, signature |-> signature, status |-> "PENDING",
                 onChainTxHash |-> NoReceipt])
       ELSE UNCHANGED relayTransactions
    /\ UNCHANGED <<now, store, roles, reentrancyStatus, payout, pushes, minedTxs, contractBalance,
                 files>>

\* Transaction.find({ status: 'PENDING' }): the serverTxIds of the records
\* whose status is PENDING, in insertion order.
PendingTxs ==
    LET found[n \in 0..Len(relayTransactions)] ==
            IF n = 0 THEN << >>
            ELSE IF relayTransactions[n].status = "PENDING" THEN Append(found[n - 1], n)
            ELSE found[n - 1]
    IN  found[Len(relayTransactions)]

\* POST /sync/push, up to the loop: the handler reads the PENDING records.
PushStart(j) ==
    /\ pushes[j].pc = "idle"
    /\ pushes' = [pushes EXCEPT ![j] =
                    [pc |-> "loop", pendingTxs |-> PendingTxs, results |-> << >>,
                     receipt |-> NoReceipt]]
    /\ UNCHANGED <<now, store, roles, reentrancyStatus, payout, relayTransactions, minedTxs, contractBalance,
                 files>>

RecordAfterFailure_StoresFailed(serverTxId) ==
    [relayTransactions EXCEPT ![serverTxId].status = "FAILED"]

\* The catch block: it pushes a FAILED result and writes no record.
RecordAfterFailure(serverTxId) == relayTransactions

\* The loop body up to the receipt: contract.submitOfflineTx with the stored
\* fields and contractTx.wait(). A call that reverts throws into the catch
\* block; a call that is mined leaves its receipt with the handler.
PushSubmit(j) ==
    /\ pushes[j].pc = "loop"
    /\ pushes[j].pendingTxs # << >>
    /\ LET serverTxId == Head(pushes[j].pendingTxs)
           doc == relayTransactions[serverTxId]
           err == SubmitOfflineTxErr(Wallet, doc.tx, doc.signature)
       IN  IF err = OK
           THEN /\ transactions' =
                      [transactions EXCEPT ![TxHashOf(doc.tx)] = NewTransaction(Wallet, doc.tx)]
                /\ clientTxIdUsed' = [clientTxIdUsed EXCEPT ![doc.tx.clientTxId] = TRUE]
                /\ minedTxs' = minedTxs + 1
                /\ pushes' = [pushes EXCEPT ![j].pc = "save", ![j].receipt = minedTxs + 1]
                /\ UNCHANGED relayTransactions
           ELSE /\ pushes' = [pushes EXCEPT
                      ![j].pendingTxs = Tail(@),
                      ![j].results = Append(@, [serverTxId |-> serverTxId,
                                                status |-> "FAILED", error |-> err])]
                /\ relayTransactions' = RecordAfterFailure(serverTxId)
                /\ UNCHANGED <<transactions, clientTxIdUsed, minedTxs>>
    /\ UNCHANGED <<now, balances, nonces, forceFinalizeSigs, roles, reentrancyStatus, payout,
                 contractBalance, files>>

PushSave_StoresNoHash(j) ==
    /\ pushes[j].pc = "save"
    /\ LET serverTxId == Head(pushes[j].pendingTxs) IN
       /\ relayTransactions' = [relayTransactions EXCEPT ![serverTxId].status = "SUBMITTED"]
       /\ pushes' = [pushes EXCEPT
              ![j].pc = "loop",
              ![j].pendingTxs = Tail(@),
              ![j].receipt = NoReceipt,
              ![j].results = Append(@, [serverTxId |-> serverTxId, status |-> "SUBMITTED",
                                        onChainTxHash |-> pushes[j].receipt])]
    /\ UNCHANGED <<now, store, roles, reentrancyStatus, payout, minedTxs, contractBalance,
                 files>>

\* The rest of the loop body: the record is saved as SUBMITTED with the
\* receipt's transaction hash and a SUBMITTED result is pushed.
PushSave(j) ==
    /\ pushes[j].pc = "save"
    /\ LET serverTxId == Head(pushes[j].pendingTxs) IN
       /\ relayTransactions' = [relayTransactions EXCEPT
              ![serverTxId].status = "SUBMITTED",
              ![serverTxId].onChainTxHash = pushes[j].receipt]
       /\ pushes' = [pushes EXCEPT
              ![j].pc = "loop",
              ![j].pendingTxs = Tail(@),
              ![j].receipt = NoReceipt,
              ![j].results = Append(@, [serverTxId |-> serverTxId, status |-> "SUBMITTED",
                                        onChainTxHash |-> pushes[j].receipt])]
    /\ UNCHANGED <<now, store, roles, reentrancyStatus, payout, minedTxs, contractBalance,
                 files>>

\* After the loop: res.json({ pushed, results }) ends the request.
PushRespond(j) ==
    /\ pushes[j].pc = "loop"
    /\ pushes[j].pendingTxs = << >>
    /\ pushes' = [pushes EXCEPT ![j] = IdlePush]
    /\ UNCHANGED <<now, store, roles, reentrancyStatus, payout, relayTransactions, minedTxs, contractBalance,
                 files>>

\* The callers: 1 deployed the contract and holds every role, 2 and 3 hold
\* none until granted one.
Next ==
    \/ \E c \in {2, 3}, v \in 0..2 : Deposit(c, v)
    \/ \E c \in {2, 3}, a \in 1..2 : Withdraw(c, a)
    \/ \E c \in {1, 2}, p \in Payloads : \E s \in SignaturesFor(p) : SubmitOfflineTx(c, p, s)
    \/ \E c \in {1, 2}, h \in TxHashes : FinalizeTx(c, h)
    \/ \E c \in Addr, h \in TxHashes : ForceFinalize(c, h)
    \/ \E c \in Addr, h \in TxHashes : DisputeTx(c, h)
    \/ \E c \in {1, 2}, a \in {2, 3} : GrantRole(c, MULTISIG_ROLE, a)
    \/ \E t \in TimePoints : Tick(t)

Spec == Init /\ [][Next]_vars

\* The same calls over the authorizations of ScenarioE, each with its
\* sender's signature.
NextE ==
    \/ \E c \in {2, 3}, v \in 0..2 : Deposit(c, v)
    \/ \E c \in {2, 3}, a \in 1..2 : Withdraw(c, a)
    \/ \E c \in {1, 2}, p \in ScenarioE : SubmitOfflineTx(c, p, SignatureOf(p))
    \/ \E c \in {1, 2}, h \in TxHashes : FinalizeTx(c, h)
    \/ \E c \in Addr, h \in TxHashes : ForceFinalize(c, h)
    \/ \E c \in Addr, h \in TxHashes : DisputeTx(c, h)
    \/ \E c \in {1, 2}, a \in {2, 3} : GrantRole(c, MULTISIG_ROLE, a)
    \/ \E t \in TimePoints : Tick(t)

SpecE == Init /\ [][NextE]_vars

\* The calls under changing capabilities: the admin grants and revokes the
\* relayer and multisig roles, and every identity tries the gated calls,
\* with a well-formed authorization and with one that names no recipient.
CapPayloads == {Payload(2, 3, 2, 0, 14, 1), Payload(2, ZERO, 1, 0, 14, 1)}

NextCap ==
    \/ Deposit(2, 2)
    \/ \E c \in Addr, p \in CapPayloads : SubmitOfflineTx(c, p, SignatureOf(p))
    \/ \E c \in Addr, h \in TxHashes : FinalizeTx(c, h)
    \/ \E c \in Addr, h \in TxHashes : ForceFinalize(c, h)
    \/ \E c \in Addr, r \in {RELAYER_ROLE, MULTISIG_ROLE}, a \in {2, 3} : GrantRole(c, r, a)
    \/ \E c \in Addr, r \in {RELAYER_ROLE, MULTISIG_ROLE}, a \in Addr : RevokeRole(c, r, a)
    \/ \E t \in TimePoints : Tick(t)

SpecCap == Init /\ [][NextCap]_vars

\* The calls with withdraw taken apart at its transfer: while the payee's
\* code runs, every call below is a call it makes back into the contract.
PayoutPayloads == {Payload(2, 3, 2, 0, 14, 1), Payload(2, 3, 1, 0, 14, 3)}

NextR ==
    \/ \E c \in {1, 2}, v \in 0..2 : Deposit(c, v)
    \/ \E c \in {1, 2}, a \in 0..2 : WithdrawCall(c, a)
    \/ PayoutReturns
    \/ PayoutReverts
    \/ \E c \in {1, 2}, p \in PayoutPayloads : SubmitOfflineTx(c, p, SignatureOf(p))
    \/ \E c \in {1, 2}, h \in TxHashes : FinalizeTx(c, h)
    \/ \E c \in {1, 2}, h \in TxHashes : ForceFinalize(c, h)
    \/ \E c \in Addr, h \in TxHashes : DisputeTx(c, h)
    \/ \E t \in TimePoints : Tick(t)

SpecR == Init /\ [][NextR]_vars

\* The relay server and the contract it calls: clients post authorizations,
\* two /sync/push requests may overlap, the sender deposits, the server's
\* wallet finalizes and time passes.
NextP ==
    \/ \E p \in PushPayloads : \E s \in SignaturesFor(p) \cup {Sign(Deployer, HashTypedDataV4(ThisDomain, StructHash(p)))} : OfflineTx(p, s)
    \/ \E j \in Handlers : PushStart(j)
    \/ \E j \in Handlers : PushSubmit(j)
    \/ \E j \in Handlers : PushSave(j)
    \/ \E j \in Handlers : PushRespond(j)
    \/ Deposit(2, 1)
    \/ \E h \in TxHashes : FinalizeTx(Wallet, h)
    \/ \E t \in {7, 14} : Tick(t)

SpecP == Init /\ [][NextP]_vars

\* =====================================================================
\* Properties
\* =====================================================================
Registered(h) == transactions[h].from # ZERO

Pending(h) == Registered(h) /\ transactions[h].status = "PENDING"

\* A step that resolves record h with a transfer: a finalizeTx that returned
\* (FINALIZED) or a forceFinalize that reached the quorum (AUTO_FINALIZED).
Settles(h) ==
    /\ Pending(h)
    /\ transactions'[h].status \in {"FINALIZED", "AUTO_FINALIZED"}

\* C1: a record whose status is FINALIZED, REJECTED or AUTO_FINALIZED keeps
\* that status in every step; finalizeTx, forceFinalize and disputeTx on it
\* revert with "Transaction not pending" (for a caller that holds the role
\* the function asks for) and change nothing.
C1_TerminalAbsorbing ==
    /\ [](\A h \in TxHashes : transactions[h].status \in Terminal =>
            \A c \in Addr :
                /\ HasRole(RELAYER_ROLE, c) => FinalizeTxErr(c, h) = ErrNotPending
                /\ HasRole(MULTISIG_ROLE, c) => ForceFinalizeErr(c, h) = ErrNotPending
                /\ DisputeTxErr(c, h) = ErrNotPending)
    /\ [][\A h \in TxHashes : transactions[h].status \in Terminal =>
            /\ transactions'[h].status = transactions[h].status
            /\ \A c \in Addr :
                 (FinalizeTx(c, h) \/ ForceFinalize(c, h) \/ DisputeTx(c, h))
                     => UNCHANGED store]_vars

\* C1 witness: at day 14 one record was rejected by a dispute, another was
\* resolved by the quorum, and a relayer's finalizeTx on the rejected one
\* reverts with "Transaction not pending".
C1_Witness ==
    \E h1, h2 \in TxHashes :
        /\ transactions[h1].status = "REJECTED"
        /\ transactions[h2].status = "AUTO_FINALIZED"
        /\ now >= transactions[h1].submittedAt + DISPUTE_WINDOW
        /\ now <= transactions[h1].expiry
        /\ balances[transactions[h1].from] >= transactions[h1].amount
        /\ FinalizeTxErr(Deployer, h1) = ErrNotPending

\* C2: a finalizeTx that returns and a forceFinalize that reaches the quorum
\* take the record's amount from balances[from] and add it to balances[to]:
\* the sum of all balances is unchanged, no third balance changes (with
\* from = to the two updates cancel), and no balance is ever negative.
C2_TransferConserves ==
    /\ [](\A a \in Addr : balances[a] >= 0)
    /\ [][\A h \in TxHashes :
            LET tx == transactions[h] IN
            Settles(h) =>
                /\ TotalBalance' = TotalBalance
                /\ \A a \in Addr \ {tx.from, tx.to} : balances'[a] = balances[a]
                /\ tx.from # tx.to =>
                     /\ balances'[tx.from] = balances[tx.from] - tx.amount
                     /\ balances'[tx.to] = balances[tx.to] + tx.amount
                /\ tx.from = tx.to => balances'[tx.from] = balances[tx.from]]_vars

\* C2 witness: one record was finalized by a relayer and another by the
\* quorum, between distinct identities, and the recipient holds funds.
C2_Witness ==
    \E h1, h2 \in TxHashes :
        /\ transactions[h1].status = "FINALIZED"
        /\ transactions[h2].status = "AUTO_FINALIZED"
        /\ transactions[h1].from # transactions[h1].to
        /\ transactions[h2].from # transactions[h2].to
        /\ balances[transactions[h2].to] > 0

\* C3: in every step nonces[a] grows by 1 if the step is a finalizeTx that
\* returned or a forceFinalize that reached the quorum on a record whose
\* sender is a, and is unchanged otherwise.
C3_NonceStep ==
    [][\A a \in Addr :
         nonces'[a] = nonces[a] +
            (IF \E h \in TxHashes : transactions[h].from = a /\ Settles(h)
             THEN 1 ELSE 0)]_vars

\* C3 witness: sender 2 had one record finalized and one resolved by the
\* quorum, and its nonce is 2 while the other nonces are still 0.
C3_Witness ==
    /\ nonces[2] = 2 /\ nonces[1] = 0 /\ nonces[3] = 0
    /\ \E h1, h2 \in TxHashes :
        /\ transactions[h1].status = "FINALIZED" /\ transactions[h1].from = 2
        /\ transactions[h2].status = "AUTO_FINALIZED" /\ transactions[h2].from = 2

\* Every signature the model knows for payload p.
AnySignature(p) == {SignatureOf(p)} \cup ForgedFor(p)

\* C4: once submitOfflineTx has set clientTxIdUsed[t], no submitOfflineTx
\* carrying t returns, whatever its other fields, its signature, its caller
\* and the status of the record that consumed t; clientTxIdUsed[t] never
\* goes back to false, and no two records carry the same token.
C4_TokenNeverReused ==
    /\ [](\A p \in Payloads, c \in Addr :
            clientTxIdUsed[p.clientTxId] =>
                \A sig \in AnySignature(p) : SubmitOfflineTxErr(c, p, sig) # OK)
    /\ [](\A h1, h2 \in TxHashes :
            (Registered(h1) /\ Registered(h2)
             /\ transactions[h1].clientTxId = transactions[h2].clientTxId) => h1 = h2)
    /\ [][\A t \in Tokens : clientTxIdUsed[t] => clientTxIdUsed'[t]]_vars

\* C4 witness: the record that consumed a token was rejected, and a payload
\* with the same token but other fields, unexpired, with the right nonce and
\* the sender's signature, is refused with "ClientTxId already used".
C4_Witness ==
    \E p \in WellFormed, h \in TxHashes :
        /\ h # TxHashOf(p)
        /\ transactions[h].clientTxId = p.clientTxId
        /\ transactions[h].status = "REJECTED"
        /\ clientTxIdUsed[p.clientTxId]
        /\ ~Registered(TxHashOf(p))
        /\ p.expiry > now
        /\ nonces[p.from] = p.nonce
        /\ SubmitOfflineTxErr(Deployer, p, SignatureOf(p)) = ErrTokenUsed

\* C5 as claimed: registering again the fields of a registered transfer
\* reverts with "Transaction already exists".
C5_ReRegisterIsDuplicate ==
    \A p \in WellFormed, c \in Addr :
        (Registered(TxHashOf(p)) /\ HasRole(RELAYER_ROLE, c)) =>
            SubmitOfflineTxErr(c, p, SignatureOf(p)) = ErrDuplicate

\* C5, amended: registering again the fields of a registered transfer always
\* reverts, and never with "Transaction already exists": a relayer's call
\* reverts with "Transaction expired" when now >= expiry and with
\* "ClientTxId already used" otherwise, whatever the signature.
C5_ReRegisterFails ==
    \A p \in WellFormed, c \in Addr :
        Registered(TxHashOf(p)) =>
            \A sig \in AnySignature(p) :
                /\ SubmitOfflineTxErr(c, p, sig) \notin {OK, ErrDuplicate}
                /\ HasRole(RELAYER_ROLE, c) =>
                     SubmitOfflineTxErr(c, p, sig) =
                        (IF now >= p.expiry THEN ErrExpired ELSE ErrTokenUsed)

\* C5 witness: two registered transfers, one still unexpired whose
\* re-registration hits the token check, one expired whose re-registration
\* hits the expiry check.
C5_Witness ==
    \E p, q \in WellFormed :
        /\ Registered(TxHashOf(p)) /\ Registered(TxHashOf(q))
        /\ now < p.expiry /\ now >= q.expiry
        /\ SubmitOfflineTxErr(Deployer, p, SignatureOf(p)) = ErrTokenUsed
        /\ SubmitOfflineTxErr(Deployer, q, SignatureOf(q)) = ErrExpired

\* C6: a call of deposit, withdraw, submitOfflineTx, finalizeTx,
\* forceFinalize or disputeTx that reverts leaves balances, nonces, records,
\* used tokens and ballots as they were: every step that changes one of
\* them is a call that returned.
C6_RevertChangesNothing ==
    [][store' # store =>
        /\ \A c \in Addr, v \in 0..MaxFunds : Deposit(c, v) => DepositErr(c, v) = OK
        /\ \A c \in Addr, a \in 0..MaxFunds : Withdraw(c, a) => WithdrawErr(c, a) = OK
        /\ \A c \in Addr, p \in Payloads : \A sig \in AnySignature(p) :
              SubmitOfflineTx(c, p, sig) => SubmitOfflineTxErr(c, p, sig) = OK
        /\ \A c \in Addr, h \in TxHashes :
              /\ FinalizeTx(c, h) => FinalizeTxErr(c, h) = OK
              /\ ForceFinalize(c, h) => ForceFinalizeErr(c, h) = OK
              /\ DisputeTx(c, h) => DisputeTxErr(c, h) = OK]_vars

\* C6 witness: a pending record holds two approvals and its sender lacks the
\* amount, so the third signer's forceFinalize reverts after its push; and a
\* payload is refused for its nonce while its token is still unused.
C6_Witness ==
    /\ \E c \in Addr, h \in TxHashes :
          /\ Len(forceFinalizeSigs[h]) = 2
          /\ ForceFinalizeErr(c, h) = ErrInsufficient
    /\ \E p \in WellFormed :
          /\ ~clientTxIdUsed[p.clientTxId]
          /\ SubmitOfflineTxErr(Deployer, p, SignatureOf(p)) \in {ErrInvalidNonce, ErrExpired}

\* The balances after amount went from one identity to another.
Transferred(bal, from, to, amount) ==
    [a \in Addr |-> bal[a] - (IF a = from THEN amount ELSE 0)
                          + (IF a = to THEN amount ELSE 0)]

\* What C7 and its amendment share: no record is FINALIZED earlier than 7
\* days after its registration; from then on, while now <= expiry and the
\* sender holds the amount, a relayer's finalizeTx returns; and the step that
\* finalizes sets the resolution time, moves the amount and raises the
\* sender's nonce by 1.
FinalizeAfterWindow ==
    /\ [](\A h \in TxHashes :
            transactions[h].status = "FINALIZED" =>
                transactions[h].finalizedAt >= transactions[h].submittedAt + DISPUTE_WINDOW)
    /\ [](\A h \in TxHashes, c \in Addr :
            LET tx == transactions[h] IN
            (/\ Pending(h) /\ HasRole(RELAYER_ROLE, c)
             /\ now >= tx.submittedAt + DISPUTE_WINDOW
             /\ now <= tx.expiry
             /\ balances[tx.from] >= tx.amount) => FinalizeTxErr(c, h) = OK)
    /\ [][\A h \in TxHashes :
            LET tx == transactions[h] IN
            /\ (Pending(h) /\ transactions'[h].status = "FINALIZED") =>
                 /\ now >= tx.submittedAt + DISPUTE_WINDOW
                 /\ transactions'[h].finalizedAt = now
                 /\ balances' = Transferred(balances, tx.from, tx.to, tx.amount)
                 /\ nonces' = [nonces EXCEPT ![tx.from] = @ + 1]
            /\ \A c \in Addr :
                 (transactions' # transactions /\ FinalizeTx(c, h)) =>
                     transactions'[h].status = "FINALIZED"]_vars

\* C7 as claimed: on a PENDING record a relayer's finalizeTx reverts with
\* "Dispute window active" whenever now < submittedAt + 7 days (with the
\* rest of the claim).
C7_WindowActiveWheneverEarly ==
    /\ [](\A h \in TxHashes, c \in Addr :
            (/\ Pending(h) /\ HasRole(RELAYER_ROLE, c)
             /\ now < transactions[h].submittedAt + DISPUTE_WINDOW)
                => FinalizeTxErr(c, h) = ErrWindowActive)
    /\ FinalizeAfterWindow

\* C7, amended: on a PENDING record a relayer's finalizeTx reverts whenever
\* now < submittedAt + 7 days, with "Transaction expired" if now > expiry
\* and with "Dispute window active" otherwise (with the rest of the claim).
C7_FinalizeRespectsWindow ==
    /\ [](\A h \in TxHashes, c \in Addr :
            (/\ Pending(h) /\ HasRole(RELAYER_ROLE, c)
             /\ now < transactions[h].submittedAt + DISPUTE_WINDOW)
                => FinalizeTxErr(c, h) =
                      (IF now > transactions[h].expiry THEN ErrExpired ELSE ErrWindowActive))
    /\ FinalizeAfterWindow

\* C7 witness: a record was finalized exactly 7 days after its registration,
\* at its expiry or before, the recipient holds the amount and the sender's
\* nonce has advanced.
C7_Witness ==
    \E h \in TxHashes :
        LET tx == transactions[h] IN
        /\ tx.status = "FINALIZED"
        /\ tx.finalizedAt = tx.submittedAt + DISPUTE_WINDOW
        /\ tx.finalizedAt <= tx.expiry
        /\ tx.from # tx.to
        /\ balances[tx.to] >= tx.amount
        /\ nonces[tx.from] = tx.nonce + 1

\* The days the two time gates are compared on.
Days == 0..(FORCE_FINALIZE_DELAY + DISPUTE_WINDOW)

\* C8: on a PENDING record disputeTx reverts with "Dispute window closed"
\* whenever now >= submittedAt + 7 days and on no record does it return
\* then; no step rejects a record at or after that time; and for every
\* record and every day the time gate of disputeTx and the time gate of
\* finalizeTx are never both satisfied.
C8_DisputeOnlyInWindow ==
    /\ [](\A h \in TxHashes, c \in Addr :
            (Registered(h) /\ now >= transactions[h].submittedAt + DISPUTE_WINDOW) =>
                /\ DisputeTxErr(c, h) # OK
                /\ Pending(h) => DisputeTxErr(c, h) = ErrWindowClosed)
    /\ [](\A h \in TxHashes, t \in Days :
            Registered(h) =>
                ~(WindowOpen(transactions[h], t) /\ WindowElapsed(transactions[h], t)))
    /\ [][\A h \in TxHashes :
            (Pending(h) /\ transactions'[h].status = "REJECTED") =>
                now < transactions[h].submittedAt + DISPUTE_WINDOW]_vars

\* C8 witness: at one time a record registered 7 days ago is pending and its
\* sender's disputeTx reverts with "Dispute window closed", while a younger
\* record was rejected inside its window.
C8_Witness ==
    \E h1, h2 \in TxHashes :
        /\ Pending(h1)
        /\ now = transactions[h1].submittedAt + DISPUTE_WINDOW
        /\ DisputeTxErr(transactions[h1].from, h1) = ErrWindowClosed
        /\ transactions[h2].status = "REJECTED"
        /\ now < transactions[h2].submittedAt + DISPUTE_WINDOW

\* A step that adds an approval to the ballot of h.
Approves(h) == forceFinalizeSigs'[h] # forceFinalizeSigs[h]

\* C9: for a PENDING record at now >= submittedAt + 14 days a signer outside
\* the ballot can approve (the third only if the sender holds the amount);
\* the first and second approvals leave the record, every balance and every
\* nonce unchanged with ballot sizes 1 and 2; the third moves the amount,
\* raises the sender's nonce and sets AUTO_FINALIZED in the same step.
C9_EscalationQuorum ==
    /\ [](\A h \in TxHashes, c \in Addr :
            LET tx == transactions[h] IN
            (/\ Pending(h) /\ HasRole(MULTISIG_ROLE, c)
             /\ now >= tx.submittedAt + FORCE_FINALIZE_DELAY
             /\ \A i \in 1..Len(forceFinalizeSigs[h]) : forceFinalizeSigs[h][i] # c
             /\ (Len(forceFinalizeSigs[h]) < 2 \/ balances[tx.from] >= tx.amount))
                => ForceFinalizeErr(c, h) = OK)
    /\ [][\A h \in TxHashes :
            LET tx == transactions[h]
                size == Len(forceFinalizeSigs[h])
            IN
            Approves(h) =>
                /\ Pending(h)
                /\ now >= tx.submittedAt + FORCE_FINALIZE_DELAY
                /\ Len(forceFinalizeSigs'[h]) = size + 1
                /\ size < 3
                /\ size < 2 =>
                     /\ transactions' = transactions
                     /\ balances' = balances
                     /\ nonces' = nonces
                /\ size = 2 =>
                     /\ transactions'[h].status = "AUTO_FINALIZED"
                     /\ transactions'[h].finalizedAt = now
                     /\ balances' = Transferred(balances, tx.from, tx.to, tx.amount)
                     /\ nonces' = [nonces EXCEPT ![tx.from] = @ + 1]]_vars

\* C9 witness: a record was resolved by three distinct signers 14 days after
\* its registration and the recipient holds the amount.
C9_Witness ==
    \E h \in TxHashes :
        LET tx == transactions[h] IN
        /\ tx.status = "AUTO_FINALIZED"
        /\ tx.finalizedAt = tx.submittedAt + FORCE_FINALIZE_DELAY
        /\ Len(forceFinalizeSigs[h]) = 3
        /\ {forceFinalizeSigs[h][i] : i \in 1..3} = Addr
        /\ balances[tx.to] >= tx.amount
        /\ nonces[tx.from] >= 1

\* C10: every ballot holds pairwise distinct identities; forceFinalize by an
\* identity already in the ballot never returns, and on a record still
\* PENDING it reverts with "Already signed"; an approval is appended only
\* for an identity the ballot did not hold.
C10_BallotDistinct ==
    /\ [](\A h \in TxHashes :
            LET signers == forceFinalizeSigs[h] IN
            /\ \A i, j \in 1..Len(signers) : signers[i] = signers[j] => i = j
            /\ \A i \in 1..Len(signers) :
                 /\ ForceFinalizeErr(signers[i], h) # OK
                 /\ (Pending(h) /\ HasRole(MULTISIG_ROLE, signers[i])) =>
                      ForceFinalizeErr(signers[i], h) = ErrAlreadySigned)
    /\ [][\A h \in TxHashes :
            Approves(h) =>
                \E c \in Addr :
                    /\ forceFinalizeSigs'[h] = Append(forceFinalizeSigs[h], c)
                    /\ \A i \in 1..Len(forceFinalizeSigs[h]) : forceFinalizeSigs[h][i] # c]_vars

\* C10 witness: a pending record holds two approvals and the forceFinalize
\* of each of the two signers reverts with "Already signed".
C10_Witness ==
    \E h \in TxHashes :
        /\ Pending(h)
        /\ Len(forceFinalizeSigs[h]) = 2
        /\ \A i \in 1..2 : ForceFinalizeErr(forceFinalizeSigs[h][i], h) = ErrAlreadySigned

\* C11: forceFinalize never returns while now < submittedAt + 14 days, and
\* on a PENDING record a signer's call then reverts with "14-day delay not
\* elapsed"; every approval is added, and every AUTO_FINALIZED status is
\* set, at a time >= submittedAt + 14 days; and that time is later than
\* submittedAt + 7 days, from which finalizeTx is allowed.
C11_EscalationNeverFaster ==
    /\ [](\A h \in TxHashes, c \in Addr :
            (Registered(h) /\ now < transactions[h].submittedAt + FORCE_FINALIZE_DELAY) =>
                /\ ForceFinalizeErr(c, h) # OK
                /\ (Pending(h) /\ HasRole(MULTISIG_ROLE, c)) =>
                     ForceFinalizeErr(c, h) = ErrDelay)
    /\ [](\A h \in TxHashes :
            LET tx == transactions[h] IN
            /\ tx.status = "AUTO_FINALIZED" =>
                 tx.finalizedAt >= tx.submittedAt + FORCE_FINALIZE_DELAY
            /\ Registered(h) =>
                 \A t \in Days :
                    t >= tx.submittedAt + FORCE_FINALIZE_DELAY =>
                        (t > tx.submittedAt + DISPUTE_WINDOW /\ WindowElapsed(tx, t)))
    /\ [][\A h \in TxHashes :
            (Approves(h) \/ (Pending(h) /\ transactions'[h].status = "AUTO_FINALIZED")) =>
                now >= transactions[h].submittedAt + FORCE_FINALIZE_DELAY]_vars

\* C11 witness: a pending record is 7 days old, a relayer's finalizeTx on it
\* would return, and a signer's forceFinalize reverts with "14-day delay not
\* elapsed" while its ballot is empty.
C11_Witness ==
    \E h \in TxHashes :
        /\ Pending(h)
        /\ now = transactions[h].submittedAt + DISPUTE_WINDOW
        /\ FinalizeTxErr(Deployer, h) = OK
        /\ ForceFinalizeErr(Deployer, h) = ErrDelay
        /\ forceFinalizeSigs[h] = << >>

\* C12: a finalizeTx that reverts with "Insufficient balance" changes
\* nothing and the record is still PENDING after every step taken from such
\* a state; as soon as the sender holds the amount again while now <=
\* expiry, and in every later state where that is so, a relayer's finalizeTx
\* on the record returns.
C12_InsufficientIsRetryable ==
    /\ [](\A h \in TxHashes, c \in Addr :
            LET tx == transactions[h] IN
            (/\ Pending(h) /\ HasRole(RELAYER_ROLE, c)
             /\ now >= tx.submittedAt + DISPUTE_WINDOW
             /\ now <= tx.expiry) =>
                FinalizeTxErr(c, h) =
                    (IF balances[tx.from] >= tx.amount THEN OK ELSE ErrInsufficient))
    /\ [][\A h \in TxHashes, c \in Addr :
            LET tx == transactions[h] IN
            FinalizeTxErr(c, h) = ErrInsufficient =>
                /\ transactions'[h].status = "PENDING"
                /\ FinalizeTx(c, h) => UNCHANGED store
                /\ (/\ balances'[tx.from] >= tx.amount
                    /\ now' <= tx.expiry
                    /\ c \in roles'[RELAYER_ROLE]) => FinalizeTxErr(c, h)' = OK]_vars

\* C12 witness: a relayer's finalizeTx on a pending record reverts with
\* "Insufficient balance" (and leaves this state as it is), the record has
\* not expired, and another record of an identity that pays the sender is
\* ready to be finalized, which will raise the sender's balance to the
\* amount.
C12_Witness ==
    \E h, g \in TxHashes :
        LET tx == transactions[h]
            incoming == transactions[g]
        IN
        /\ Pending(h)
        /\ FinalizeTxErr(Deployer, h) = ErrInsufficient
        /\ now <= tx.expiry
        /\ g # h /\ incoming.to = tx.from /\ incoming.from # tx.from
        /\ FinalizeTxErr(Deployer, g) = OK
        /\ balances[tx.from] + incoming.amount >= tx.amount

\* Records h and g are both registered and carry the same sender.
SameSender(h, g) ==
    h # g /\ Registered(h) /\ Registered(g) /\ transactions[h].from = transactions[g].from

\* C13: submitOfflineTx returns exactly when the role, expiry, token, nonce,
\* signature and identifier checks pass, whatever the sender's balance; a
\* sender can have pending transfers whose amounts together exceed its
\* balance; when finalizeTx settles one of them, another pending one whose
\* amount exceeds what is left stays PENDING, and a relayer's finalizeTx on
\* it, once past its window and unexpired, reverts with "Insufficient
\* balance".
C13_FirstFinalizedFirstServed ==
    /\ [](\A p \in ScenarioE, c \in Addr :
            SubmitOfflineTxErr(c, p, SignatureOf(p)) = OK <=>
                /\ HasRole(RELAYER_ROLE, c)
                /\ p.expiry > now
                /\ ~clientTxIdUsed[p.clientTxId]
                /\ nonces[p.from] = p.nonce
                /\ ~Registered(TxHashOf(p)))
    /\ [](\A h \in TxHashes, c \in Addr :
            LET tx == transactions[h] IN
            (/\ Pending(h) /\ HasRole(RELAYER_ROLE, c)
             /\ now >= tx.submittedAt + DISPUTE_WINDOW
             /\ now <= tx.expiry
             /\ tx.amount > balances[tx.from]) => FinalizeTxErr(c, h) = ErrInsufficient)
    /\ [][\A h, g \in TxHashes :
            LET tx == transactions[g] IN
            (/\ SameSender(h, g) /\ Pending(g)
             /\ Pending(h) /\ transactions'[h].status = "FINALIZED"
             /\ tx.amount > balances'[tx.from]) =>
                /\ transactions'[g] = tx
                /\ \A c \in Addr : FinalizeTxErr(c, g)' # OK
                /\ \A c \in roles'[RELAYER_ROLE] :
                     (now' >= tx.submittedAt + DISPUTE_WINDOW /\ now' <= tx.expiry) =>
                        FinalizeTxErr(c, g)' = ErrInsufficient]_vars

\* C13 witness: sender 2 registered two transfers under nonce 0, of 2 and
\* of 1, on the same day; the first was finalized and emptied the balance,
\* a third was then registered under nonce 1 with nothing left, and
\* finalizeTx on either pending one reverts with "Insufficient balance".
C13_Witness ==
    \E h, g, k \in TxHashes :
        /\ SameSender(h, g) /\ SameSender(h, k) /\ SameSender(g, k)
        /\ transactions[h].status = "FINALIZED" /\ transactions[h].nonce = 0
        /\ Pending(g) /\ transactions[g].nonce = 0
        /\ transactions[g].submittedAt = transactions[h].submittedAt
        /\ Pending(k) /\ transactions[k].nonce = 1
        /\ transactions[k].submittedAt = transactions[h].finalizedAt
        /\ balances[transactions[h].from] = 0
        /\ FinalizeTxErr(Deployer, g) = ErrInsufficient
        /\ FinalizeTxErr(Deployer, k) = ErrInsufficient

\* C14: for a caller that does not hold RELAYER_ROLE, submitOfflineTx and
\* finalizeTx revert on the role check whatever else is wrong with the call,
\* and so does forceFinalize for a caller that does not hold MULTISIG_ROLE,
\* also after the role was revoked; such a call changes nothing, every
\* record is registered and every finalization is made by a caller holding
\* RELAYER_ROLE at that time, and every approval comes from a caller holding
\* MULTISIG_ROLE at that time.
C14_CapabilityGating ==
    /\ [](\A c \in Addr :
            /\ ~HasRole(RELAYER_ROLE, c) =>
                 /\ \A p \in Payloads \cup ScenarioE : \A sig \in AnySignature(p) :
                       SubmitOfflineTxErr(c, p, sig) = ErrMissingRole
                 /\ \A h \in TxHashes : FinalizeTxErr(c, h) = ErrMissingRole
            /\ ~HasRole(MULTISIG_ROLE, c) =>
                 \A h \in TxHashes : ForceFinalizeErr(c, h) = ErrMissingRole)
    /\ [][/\ \A c \in Addr \ roles[RELAYER_ROLE] :
               /\ \A p \in CapPayloads : SubmitOfflineTx(c, p, SignatureOf(p)) => UNCHANGED store
               /\ \A h \in TxHashes : FinalizeTx(c, h) => UNCHANGED store
          /\ \A c \in Addr \ roles[MULTISIG_ROLE] :
               \A h \in TxHashes : ForceFinalize(c, h) => UNCHANGED store
          /\ \A h \in TxHashes :
               /\ (~Registered(h) /\ transactions'[h].from # ZERO) =>
                    transactions'[h].relayer \in roles[RELAYER_ROLE]
               /\ (Pending(h) /\ transactions'[h].status = "FINALIZED") =>
                    \E c \in roles[RELAYER_ROLE] : FinalizeTx(c, h)
               /\ Approves(h) =>
                    \E c \in roles[MULTISIG_ROLE] :
                        forceFinalizeSigs'[h] = Append(forceFinalizeSigs[h], c)]_vars

\* C14 witness: identity 2 registered a pending record as relayer and
\* approved it as signer, both roles were then revoked, and its
\* submitOfflineTx, finalizeTx and forceFinalize revert on the role check
\* although the admin's finalizeTx on the same record would return.
C14_Witness ==
    \E h \in TxHashes :
        /\ Pending(h)
        /\ transactions[h].relayer = 2
        /\ AlreadySigned(forceFinalizeSigs[h], 2)
        /\ ~HasRole(RELAYER_ROLE, 2) /\ ~HasRole(MULTISIG_ROLE, 2)
        /\ HasRole(RELAYER_ROLE, Deployer)
        /\ FinalizeTxErr(Deployer, h) = OK
        /\ FinalizeTxErr(2, h) = ErrMissingRole
        /\ ForceFinalizeErr(2, h) = ErrMissingRole
        /\ \A p \in CapPayloads : SubmitOfflineTxErr(2, p, SignatureOf(p)) = ErrMissingRole

\* Identity c is neither the sender nor the recipient of record h.
Outsider(c, h) == c # transactions[h].from /\ c # transactions[h].to

\* What C15 and its amendment share: a disputeTx by an outsider changes
\* nothing, and every step that rejects a record is a disputeTx of its
\* sender or of its recipient.
OnlyPartiesReject ==
    [][store' # store =>
         \A h \in TxHashes :
            /\ \A c \in Addr : Outsider(c, h) => ~DisputeTx(c, h)
            /\ (Pending(h) /\ transactions'[h].status = "REJECTED") =>
                 \E c \in {transactions[h].from, transactions[h].to} : DisputeTx(c, h)]_vars

\* C15 as claimed: on a registered record disputeTx by an outsider reverts
\* with "Only involved parties can dispute", whatever the status and the
\* time (with the rest of the claim).
C15_OutsiderAlwaysUnauthorized ==
    /\ [](\A h \in TxHashes, c \in Addr :
            (Registered(h) /\ Outsider(c, h)) => DisputeTxErr(c, h) = ErrNotParty)
    /\ OnlyPartiesReject

\* C15, amended: on a registered record disputeTx by an outsider always
\* reverts: with "Transaction not pending" if the record is not PENDING,
\* else with "Dispute window closed" if now >= submittedAt + 7 days, else
\* with "Only involved parties can dispute" (with the rest of the claim).
C15_OutsiderNeverDisputes ==
    /\ [](\A h \in TxHashes, c \in Addr :
            (Registered(h) /\ Outsider(c, h)) =>
                DisputeTxErr(c, h) =
                    (IF transactions[h].status # "PENDING" THEN ErrNotPending
                     ELSE IF now >= transactions[h].submittedAt + DISPUTE_WINDOW
                          THEN ErrWindowClosed
                     ELSE ErrNotParty))
    /\ OnlyPartiesReject

\* C15 witness: an outsider's disputeTx reverts with "Only involved parties
\* can dispute" on a pending record inside its window and with "Transaction
\* not pending" on a record that was rejected, inside its window too.
C15_Witness ==
    \E h1, h2 \in TxHashes :
        /\ Pending(h1) /\ Outsider(Deployer, h1)
        /\ DisputeTxErr(Deployer, h1) = ErrNotParty
        /\ transactions[h2].status = "REJECTED" /\ Outsider(Deployer, h2)
        /\ now < transactions[h2].submittedAt + DISPUTE_WINDOW
        /\ DisputeTxErr(Deployer, h2) = ErrNotPending

\* C16: withdraw reverts with "Insufficient balance" and changes nothing
\* when balances[caller] < amount; otherwise, when the payee's code runs,
\* balances[caller] is already lower by exactly the amount and nothing else
\* has changed, a withdraw the payee makes from there reverts, and the
\* amount paid is never more than the balance the caller held when the
\* withdraw began.
C16_DebitBeforePayout ==
    /\ [](\A c \in Addr, a \in 0..(MaxFunds + 1) :
            /\ (~InPayout /\ balances[c] < a) => WithdrawErr(c, a) = ErrInsufficient
            /\ (~InPayout /\ balances[c] >= a) => WithdrawErr(c, a) = OK
            /\ InPayout => WithdrawErr(c, a) # OK)
    /\ [](InPayout =>
            /\ payout.amount <= payout.startBalance
            /\ balances[payout.caller] = payout.startBalance - payout.amount)
    /\ [][/\ \A c \in Addr, a \in 0..(MaxFunds + 1) :
               (balances[c] < a /\ WithdrawCall(c, a)) => UNCHANGED vars
          /\ (~InPayout /\ payout' # NoPayout) =>
               /\ balances' = [balances EXCEPT ![payout'.caller] = @ - payout'.amount]
               /\ payout'.startBalance = balances[payout'.caller]
               /\ UNCHANGED <<nonces, transactions, clientTxIdUsed, forceFinalizeSigs>>
          /\ InPayout =>
               \/ UNCHANGED <<balances, payout>>
               \/ payout' = NoPayout /\ UNCHANGED balances
               \/ /\ payout' = NoPayout
                  /\ balances' = [balances EXCEPT ![payout.caller] = payout.startBalance]]_vars

\* C16 witness: identity 2 holds 2 and its withdraw of 1 is paying out; its
\* balance already reads 1, and a withdraw of that 1 made by the payee's
\* code reverts on the lock.
C16_Witness ==
    /\ InPayout
    /\ payout.caller = 2 /\ payout.startBalance = 2 /\ payout.amount = 1
    /\ balances[2] = 1
    /\ WithdrawErr(2, 1) = ErrReentrant

\* C17 as claimed: while a withdraw is paying out, a call the payee's code
\* makes into deposit, withdraw, submitOfflineTx, finalizeTx, disputeTx or
\* forceFinalize (holding the role the function asks for) reverts on the
\* reentrancy lock, and the lock is free whenever no withdraw is paying out.
C17_LockRejectsNestedCalls ==
    /\ InPayout =>
         \A c \in Addr :
            /\ \A v \in 1..MaxFunds : DepositErr(c, v) = ErrReentrant
            /\ \A a \in 0..MaxFunds : WithdrawErr(c, a) = ErrReentrant
            /\ \A h \in TxHashes : DisputeTxErr(c, h) = ErrReentrant
            /\ HasRole(RELAYER_ROLE, c) =>
                 /\ \A p \in PayoutPayloads :
                       SubmitOfflineTxErr(c, p, SignatureOf(p)) = ErrReentrant
                 /\ \A h \in TxHashes : FinalizeTxErr(c, h) = ErrReentrant
            /\ HasRole(MULTISIG_ROLE, c) =>
                 \A h \in TxHashes : ForceFinalizeErr(c, h) = ErrReentrant
    /\ ~InPayout => reentrancyStatus = "NOT_ENTERED"

\* C18: outside a payout deposit returns exactly when its value is > 0 and
\* reverts with "Amount must be > 0" when it is 0; a deposit that returns
\* raises getBalance(caller) by exactly the value and leaves every other
\* balance, every nonce, every record, every ballot and every used token
\* unchanged; on a contract that holds nothing yet getBalance(caller) is
\* the value afterwards.
C18_DepositCredits ==
    /\ [](\A c \in Addr, v \in 0..(MaxFunds + 1) :
            ~InPayout => DepositErr(c, v) = (IF v > 0 THEN OK ELSE ErrInvalidAmount))
    /\ [][balances' # balances =>
            \A c \in Addr, v \in 1..MaxFunds :
                Deposit(c, v) =>
                    /\ GetBalance(c)' = GetBalance(c) + v
                    /\ \A a \in Addr \ {c} : GetBalance(a)' = GetBalance(a)
                    /\ UNCHANGED <<nonces, transactions, clientTxIdUsed, forceFinalizeSigs>>
                    /\ TotalBalance = 0 => GetBalance(c)' = v]_vars

\* C18 witness: two identities deposited 1 each into a contract without
\* records; each holds 1 and the third balance is still 0.
C18_Witness ==
    /\ GetBalance(2) = 1 /\ GetBalance(3) = 1 /\ GetBalance(1) = 0
    /\ \A h \in TxHashes : ~Registered(h)
    /\ \A a \in Addr : nonces[a] = 0
    /\ DepositErr(2, 0) = ErrInvalidAmount

\* C19: disputeTx by the sender or the recipient of a PENDING record at
\* now < submittedAt + 7 days returns; the step that rejects a record
\* changes that record's status and nothing else: its other fields, the
\* resolution time (still 0) included, every other record, every balance,
\* every nonce, every ballot and every used token stay as they were.
C19_DisputeOnlySetsStatus ==
    /\ [](\A h \in TxHashes :
            /\ transactions[h].status = "REJECTED" => transactions[h].finalizedAt = 0
            /\ (Pending(h) /\ now < transactions[h].submittedAt + DISPUTE_WINDOW) =>
                 \A c \in {transactions[h].from, transactions[h].to} :
                    DisputeTxErr(c, h) = OK)
    /\ [][\A h \in TxHashes :
            (Pending(h) /\ transactions'[h].status = "REJECTED") =>
                /\ transactions' = [transactions EXCEPT ![h].status = "REJECTED"]
                /\ transactions'[h].finalizedAt = 0
                /\ UNCHANGED <<balances, nonces, forceFinalizeSigs, clientTxIdUsed>>]_vars

\* C19 witness: a record registered at day 3 or later was rejected; its
\* resolution time is 0, its sender still holds the amount and the nonce
\* the record declares, its token stays used and its ballot is empty.
C19_Witness ==
    \E h \in TxHashes :
        LET tx == transactions[h] IN
        /\ tx.status = "REJECTED"
        /\ tx.submittedAt >= 3
        /\ tx.finalizedAt = 0
        /\ tx.from # tx.to
        /\ balances[tx.from] >= tx.amount
        /\ nonces[tx.from] = tx.nonce
        /\ clientTxIdUsed[tx.clientTxId]
        /\ forceFinalizeSigs[h] = << >>

\* The six signed fields of a stored record.
FieldsOf(tx) == Payload(tx.from, tx.to, tx.amount, tx.nonce, tx.expiry, tx.clientTxId)

\* C20: submitOfflineTx returns only for the signature the sender made over
\* exactly the submitted fields under this contract's domain; a signature
\* of another identity, over another value of any field or under another
\* domain never passes and, when the checks before it pass, reverts with
\* "Invalid signature"; every record is stored by a call whose signature
\* recovers to the record's sender over the stored fields, and a settlement
\* lowers no balance but that sender's.
C20_RecordsAreAuthorized ==
    /\ [](\A p \in Payloads, c \in Addr :
            /\ \A sig \in Forgeries(p) :
                 /\ SubmitOfflineTxErr(c, p, sig) # OK
                 /\ (/\ HasRole(RELAYER_ROLE, c) /\ p \in WellFormed /\ p.expiry > now
                     /\ ~clientTxIdUsed[p.clientTxId] /\ nonces[p.from] = p.nonce) =>
                        SubmitOfflineTxErr(c, p, sig) = ErrInvalidSignature
            /\ \A sig \in AnySignature(p) \cup Forgeries(p) :
                 SubmitOfflineTxErr(c, p, sig) = OK => sig = SignatureOf(p))
    /\ [][\A h \in TxHashes :
            LET tx == transactions'[h] IN
            /\ (~Registered(h) /\ tx.from # ZERO) =>
                 /\ h = TxHashOf(FieldsOf(tx))
                 /\ \E c \in Addr : \E sig \in AnySignature(FieldsOf(tx)) :
                       /\ SubmitOfflineTx(c, FieldsOf(tx), sig)
                       /\ sig.signer = tx.from
                       /\ sig.digest = HashTypedDataV4(ThisDomain, StructHash(FieldsOf(tx)))
            /\ Settles(h) =>
                 \A a \in Addr : balances'[a] < balances[a] => a = transactions[h].from]_vars

\* C20 witness: a transfer signed by identity 2 was registered and settled,
\* debiting 2 and crediting 3; the next authorization of 2 would be accepted
\* with its own signature, and each of the forged signatures for it reverts
\* with "Invalid signature".
C20_Witness ==
    \E h \in TxHashes, p \in WellFormed :
        /\ transactions[h].status \in {"FINALIZED", "AUTO_FINALIZED"}
        /\ transactions[h].from = 2 /\ transactions[h].to = 3
        /\ balances[3] >= transactions[h].amount
        /\ SubmitOfflineTxErr(Deployer, p, SignatureOf(p)) = OK
        /\ \A sig \in Forgeries(p) :
              SubmitOfflineTxErr(Deployer, p, sig) = ErrInvalidSignature

\* The records of sender a that were settled with a transfer.
SettledOf(a) ==
    {h \in TxHashes : /\ transactions[h].from = a
                      /\ transactions[h].status \in {"FINALIZED", "AUTO_FINALIZED"}}

\* C21: in every reachable state the nonce of an identity equals the number
\* of records it sent whose status is FINALIZED or AUTO_FINALIZED, and no
\* step lowers a nonce.
C21_NonceCountsSettlements ==
    /\ [](\A a \in Addr : nonces[a] = Cardinality(SettledOf(a)))
    /\ [][\A a \in Addr : nonces'[a] >= nonces[a]]_vars

\* C21 witness: identity 2 has two settled records, one by finalizeTx and
\* one by forceFinalize, and nonce 2, while a third record of 2 was rejected
\* and is not counted.
C21_Witness ==
    /\ nonces[2] = 2
    /\ \E h, g, r \in TxHashes :
          /\ transactions[h].from = 2 /\ transactions[h].status = "FINALIZED"
          /\ transactions[g].from = 2 /\ transactions[g].status = "AUTO_FINALIZED"
          /\ transactions[r].from = 2 /\ transactions[r].status = "REJECTED"

\* A step that registers record h.
Registers(h) == ~Registered(h) /\ transactions'[h].from # ZERO

\* The authorizations any of the specifications submits.
AllPayloads == Payloads \cup ScenarioE

\* What line 86 gives: submitOfflineTx returns only for the nonce the sender
\* has at the call, and with the earlier checks passed any other nonce
\* reverts with "Invalid nonce"; no record declares a nonce above its
\* sender's current one.
NonceMatchesAtRegistration ==
    /\ \A p \in AllPayloads, c \in Addr :
          /\ SubmitOfflineTxErr(c, p, SignatureOf(p)) = OK => p.nonce = nonces[p.from]
          /\ (/\ HasRole(RELAYER_ROLE, c) /\ p.to # ZERO /\ p.amount > 0
              /\ p.expiry > now /\ ~clientTxIdUsed[p.clientTxId]
              /\ p.nonce # nonces[p.from]) =>
                 SubmitOfflineTxErr(c, p, SignatureOf(p)) = ErrInvalidNonce
    /\ \A h \in TxHashes :
          Registered(h) => transactions[h].nonce <= nonces[transactions[h].from]

\* C22 as stated: in registration order the nonces one sender's records
\* declare are strictly increasing, i.e. a newly registered record declares
\* a nonce above that of every record its sender registered before.
C22_NoncesStrictlyIncrease ==
    /\ []NonceMatchesAtRegistration
    /\ [][\A h, g \in TxHashes :
            (Registers(h) /\ Registered(g) /\ transactions[g].from = transactions'[h].from) =>
                transactions[g].nonce < transactions'[h].nonce]_vars

\* C22 (amended): submitOfflineTx returns only when the supplied nonce
\* equals the sender's nonce at the call (otherwise "Invalid nonce"), every
\* record's declared nonce is at most its sender's current nonce, and in
\* registration order the nonces one sender's records declare never
\* decrease.
C22_NoncesNeverDecrease ==
    /\ []NonceMatchesAtRegistration
    /\ [][\A h, g \in TxHashes :
            (Registers(h) /\ Registered(g) /\ transactions[g].from = transactions'[h].from) =>
                transactions[g].nonce <= transactions'[h].nonce]_vars

\* C22 witness: identity 2 registered, on different days, two records that
\* both declare nonce 0, its nonce still being 0; the authorization that
\* declares nonce 1 reverts with "Invalid nonce".
C22_Witness ==
    /\ \E h, g \in TxHashes :
          /\ transactions[h].from = 2 /\ transactions[h].nonce = 0
          /\ transactions[g].from = 2 /\ transactions[g].nonce = 0
          /\ transactions[h].submittedAt < transactions[g].submittedAt
    /\ nonces[2] = 0
    /\ \E p \in AllPayloads :
          /\ p.from = 2 /\ p.nonce = 1
          /\ SubmitOfflineTxErr(Deployer, p, SignatureOf(p)) = ErrInvalidNonce

\* The requires of submitOfflineTx in the order the claim gives them, each
\* with the condition it asks for and the error it reverts with.
OrderedChecks(p, signature) ==
    << <<p.to # ZERO, ErrInvalidRecipient>>,
       <<p.amount > 0, ErrInvalidAmount>>,
       <<p.expiry > now, ErrExpired>>,
       <<~clientTxIdUsed[p.clientTxId], ErrTokenUsed>>,
       <<nonces[p.from] = p.nonce, ErrInvalidNonce>>,
       <<signature.signer = p.from
            /\ signature.digest = HashTypedDataV4(ThisDomain, StructHash(p)),
         ErrInvalidSignature>>,
       <<~(TxHashOf(p) \in TxHashes /\ Registered(TxHashOf(p))), ErrDuplicate>> >>

\* The checks of a call that fail.
FailingChecks(p, signature) ==
    {i \in 1..Len(OrderedChecks(p, signature)) : ~OrderedChecks(p, signature)[i][1]}

\* C23: when one or more of the checks recipient, amount, expiry, token,
\* nonce, signature, identifier fail, submitOfflineTx called by a relayer
\* reverts with the error of the failing check that comes first in this
\* order, and it returns only when none fails.
C23_FirstFailingCheckReported ==
    \A p \in AllPayloads, c \in Addr :
        \A sig \in AnySignature(p) :
            LET checks == OrderedChecks(p, sig)
                failing == FailingChecks(p, sig)
            IN  HasRole(RELAYER_ROLE, c) =>
                  /\ \A i \in failing :
                        (\A j \in failing : i <= j) =>
                            SubmitOfflineTxErr(c, p, sig) = checks[i][2]
                  /\ SubmitOfflineTxErr(c, p, sig) = OK => failing = {}

\* The error of a call of the deployer in which two or more checks fail.
ErrOfSeveral(p, signature) ==
    IF Cardinality(FailingChecks(p, signature)) >= 2
    THEN SubmitOfflineTxErr(Deployer, p, signature)
    ELSE OK

\* C23 witness: a state in which calls that fail two or more checks at once
\* are reported as "Invalid recipient", "Invalid amount", "Transaction
\* expired", "ClientTxId already used" and "Invalid nonce", the last one
\* with a forged signature, and the re-submission of a stored record, which
\* fails the token and the identifier check, as "ClientTxId already used".
C23_Witness ==
    /\ \A err \in {ErrInvalidRecipient, ErrInvalidAmount, ErrExpired,
                   ErrTokenUsed, ErrInvalidNonce} :
          \E p \in AllPayloads : \E sig \in AnySignature(p) :
              ErrOfSeveral(p, sig) = err
    /\ \E p \in AllPayloads :
          /\ {4, 7} \subseteq FailingChecks(p, SignatureOf(p))
          /\ SubmitOfflineTxErr(Deployer, p, SignatureOf(p)) = ErrTokenUsed
    /\ \E p \in AllPayloads : \E sig \in ForgedFor(p) :
          /\ {5, 6} \subseteq FailingChecks(p, sig)
          /\ SubmitOfflineTxErr(Deployer, p, sig) = ErrInvalidNonce

\* C24: a submitOfflineTx that returns stores exactly one new record, under
\* the hash of the supplied fields, with status PENDING, submittedAt = now,
\* finalizedAt = 0, relayer = the caller and the supplied from, to, amount,
\* nonce, expiry and clientTxId; it marks that clientTxId, unused before,
\* as used and no other; it changes no balance, no nonce, no ballot and no
\* other record. No other step stores a record or marks a token.
C24_RegistrationEffect ==
    [][/\ \A h \in TxHashes : Registers(h) =>
             LET tx == transactions'[h] IN
             /\ \E c \in Addr, p \in AllPayloads :
                   /\ SubmitOfflineTxErr(c, p, SignatureOf(p)) = OK
                   /\ h = TxHashOf(p)
                   /\ tx = [from |-> p.from, to |-> p.to, amount |-> p.amount,
                            nonce |-> p.nonce, expiry |-> p.expiry,
                            clientTxId |-> p.clientTxId, submittedAt |-> now,
                            finalizedAt |-> 0, status |-> "PENDING", relayer |-> c]
             /\ \A g \in TxHashes \ {h} : transactions'[g] = transactions[g]
             /\ ~clientTxIdUsed[tx.clientTxId]
             /\ \A t \in Tokens : clientTxIdUsed'[t] <=> (clientTxIdUsed[t] \/ t = tx.clientTxId)
             /\ UNCHANGED <<balances, nonces, forceFinalizeSigs>>
       /\ clientTxIdUsed' # clientTxIdUsed => \E h \in TxHashes : Registers(h)]_vars

\* C24 witness: the deployer, a relayer, registered a transfer of identity 2
\* today, day 3 or later, while an earlier record with a ballot-free
\* history exists and the sender holds funds; the new record is PENDING
\* with no resolution time, its token is used and another token is not.
C24_Witness ==
    \E h, g \in TxHashes :
        LET tx == transactions[h] IN
        /\ h # g /\ Registered(g) /\ transactions[g].submittedAt < now
        /\ tx.from = 2 /\ tx.relayer = Deployer
        /\ tx.status = "PENDING" /\ tx.submittedAt = now /\ now >= 3
        /\ tx.finalizedAt = 0
        /\ h = TxHashOf(FieldsOf(tx))
        /\ clientTxIdUsed[tx.clientTxId]
        /\ \E t \in Tokens : ~clientTxIdUsed[t]
        /\ balances[2] > 0
        /\ forceFinalizeSigs[h] = << >>

\* C25: on a PENDING record a relayer's finalizeTx reverts with "Transaction
\* expired" whenever now > expiry, whether or not the dispute window has
\* elapsed and whether or not the sender holds the amount, and never so
\* when now <= expiry (at now = expiry it returns if the window has elapsed
\* and the balance suffices); on an unknown hash it reverts with
\* "Transaction not found" and on a terminal record with "Transaction not
\* pending", also after the expiry; finalizeTx never resolves a record after
\* its expiry, and every FINALIZED record carries a resolution time t with
\* submittedAt + 7 days <= t <= expiry.
C25_NoFinalizeAfterExpiry ==
    /\ [](\A h \in TxHashes, c \in Addr :
            LET tx == transactions[h] IN
            HasRole(RELAYER_ROLE, c) =>
                /\ (Pending(h) /\ now > tx.expiry) => FinalizeTxErr(c, h) = ErrExpired
                /\ (Pending(h) /\ now <= tx.expiry) => FinalizeTxErr(c, h) # ErrExpired
                /\ (/\ Pending(h) /\ now = tx.expiry
                    /\ now >= tx.submittedAt + DISPUTE_WINDOW
                    /\ balances[tx.from] >= tx.amount) => FinalizeTxErr(c, h) = OK
                /\ ~Registered(h) => FinalizeTxErr(c, h) = ErrNotFound
                /\ (Registered(h) /\ ~Pending(h)) => FinalizeTxErr(c, h) = ErrNotPending)
    /\ [](\A h \in TxHashes :
            LET tx == transactions[h] IN
            tx.status = "FINALIZED" =>
                /\ tx.submittedAt + DISPUTE_WINDOW <= tx.finalizedAt
                /\ tx.finalizedAt <= tx.expiry)
    /\ [][\A h \in TxHashes :
            (Pending(h) /\ transactions'[h].status = "FINALIZED") =>
                /\ now <= transactions[h].expiry
                /\ transactions'[h].finalizedAt = now]_vars

\* C25 witness: one record was finalized exactly at its expiry; another,
\* still PENDING, is past its expiry and its window and its sender holds
\* less than its amount, and finalizeTx on it reverts with "Transaction
\* expired"; on the finalized one it reverts with "Transaction not pending".
C25_Witness ==
    \E h, g \in TxHashes :
        LET tx == transactions[g] IN
        /\ transactions[h].status = "FINALIZED"
        /\ transactions[h].finalizedAt = transactions[h].expiry
        /\ Pending(g) /\ now > tx.expiry
        /\ now >= tx.submittedAt + DISPUTE_WINDOW
        /\ balances[tx.from] < tx.amount
        /\ FinalizeTxErr(Deployer, g) = ErrExpired
        /\ FinalizeTxErr(Deployer, h) = ErrNotPending

\* The fields of a record that are written at registration only.
RegistrationFields(tx) ==
    <<tx.from, tx.to, tx.amount, tx.nonce, tx.expiry, tx.clientTxId,
      tx.submittedAt, tx.relayer>>

\* C26: a registered record exists in every later state with the same
\* sender, recipient, amount, declared nonce, expiry, token, registration
\* time and relayer; a step that changes the record changes its status or
\* resolution time only and is a finalizeTx, a forceFinalize or a disputeTx
\* on that record.
C26_RecordsImmutable ==
    [][\A h \in TxHashes : Registered(h) =>
          /\ transactions'[h].from # ZERO
          /\ RegistrationFields(transactions'[h]) = RegistrationFields(transactions[h])
          /\ transactions'[h] # transactions[h] =>
                \E c \in Addr :
                    \/ FinalizeTx(c, h)
                    \/ ForceFinalize(c, h)
                    \/ DisputeTx(c, h)]_vars

\* C26 witness: three records registered by the deployer were resolved, one
\* by finalizeTx, one by forceFinalize and one by disputeTx; each still
\* sits under the hash of its six signed fields, the settled ones with a
\* resolution time after their registration time.
C26_Witness ==
    \E h, g, r \in TxHashes :
        /\ transactions[h].status = "FINALIZED"
        /\ transactions[g].status = "AUTO_FINALIZED"
        /\ transactions[r].status = "REJECTED"
        /\ \A k \in {h, g, r} :
              /\ k = TxHashOf(FieldsOf(transactions[k]))
              /\ transactions[k].relayer = Deployer
        /\ \A k \in {h, g} : transactions[k].finalizedAt > transactions[k].submittedAt
        /\ transactions[r].finalizedAt = 0
        /\ transactions[r].submittedAt > transactions[g].submittedAt

\* C27: a ballot changes only by one approver being appended and only while
\* its record is PENDING at the start of the step; the ballot of a terminal
\* record never changes; no ballot holds more than 3 approvers; the ballot
\* of a PENDING record holds fewer than 3; a record is AUTO_FINALIZED
\* exactly when its ballot holds 3.
C27_BallotMatchesStatus ==
    /\ [](\A h \in TxHashes :
            /\ Len(forceFinalizeSigs[h]) <= MULTISIG_THRESHOLD
            /\ transactions[h].status = "PENDING" =>
                  Len(forceFinalizeSigs[h]) < MULTISIG_THRESHOLD
            /\ transactions[h].status = "AUTO_FINALIZED" <=>
                  Len(forceFinalizeSigs[h]) = MULTISIG_THRESHOLD)
    /\ [][\A h \in TxHashes :
            /\ Approves(h) =>
                  /\ Pending(h)
                  /\ \E c \in Addr : forceFinalizeSigs'[h] = Append(forceFinalizeSigs[h], c)
            /\ transactions[h].status \in Terminal =>
                  forceFinalizeSigs'[h] = forceFinalizeSigs[h]]_vars

\* C27 witness: one record is AUTO_FINALIZED with a ballot of 3, another is
\* PENDING with a ballot of 2 and a third call on it is waiting for funds.
C27_Witness ==
    \E h, g \in TxHashes :
        /\ transactions[g].status = "AUTO_FINALIZED"
        /\ Len(forceFinalizeSigs[g]) = 3
        /\ Pending(h) /\ Len(forceFinalizeSigs[h]) = 2
        /\ \E c \in Addr : ForceFinalizeErr(c, h) = ErrInsufficient

\* C28: the forceFinalize of a third approver (role held, delay elapsed, not
\* yet in the ballot of 2) on a PENDING record reverts with "Insufficient
\* balance" when the sender holds less than the amount and returns
\* otherwise; the reverted call leaves ballots, records, balances, nonces
\* and tokens as they were (the ballot keeps its 2 approvers, the record
\* stays PENDING); once the sender holds the amount the same approver's call
\* returns, and the step that adds a third approver resolves the record to
\* AUTO_FINALIZED and moves the amount.
C28_QuorumWaitsForFunds ==
    /\ [](\A h \in TxHashes, c \in Addr :
            LET tx == transactions[h] IN
            (/\ Pending(h) /\ HasRole(MULTISIG_ROLE, c)
             /\ now >= tx.submittedAt + FORCE_FINALIZE_DELAY
             /\ Len(forceFinalizeSigs[h]) = MULTISIG_THRESHOLD - 1
             /\ \A i \in 1..Len(forceFinalizeSigs[h]) : forceFinalizeSigs[h][i] # c) =>
                ForceFinalizeErr(c, h) =
                    (IF balances[tx.from] >= tx.amount THEN OK ELSE ErrInsufficient))
    /\ [](\A h \in TxHashes, c \in Addr :
            ForceFinalizeErr(c, h) = ErrInsufficient =>
                Pending(h) /\ Len(forceFinalizeSigs[h]) = MULTISIG_THRESHOLD - 1)
    /\ [][\A h \in TxHashes :
            LET tx == transactions[h] IN
            /\ (Pending(h) /\ Len(forceFinalizeSigs[h]) = MULTISIG_THRESHOLD - 1) =>
                 \A c \in Addr :
                    ForceFinalizeErr(c, h) = ErrInsufficient =>
                        /\ ForceFinalize(c, h) => UNCHANGED store
                        /\ (balances'[tx.from] >= tx.amount /\ c \in roles'[MULTISIG_ROLE]) =>
                              ForceFinalizeErr(c, h)' = OK
            /\ (Approves(h) /\ Len(forceFinalizeSigs[h]) = MULTISIG_THRESHOLD - 1) =>
                    /\ transactions'[h].status = "AUTO_FINALIZED"
                    /\ balances[tx.from] >= tx.amount
                    /\ balances' = Transferred(balances, tx.from, tx.to, tx.amount)
                    /\ nonces'[tx.from] = nonces[tx.from] + 1]_vars

\* C28 witness: two approvers signed for a pending record whose sender
\* holds nothing; the third approver's call reverts with "Insufficient
\* balance", and a deposit of the amount is still possible, after which the
\* call will return.
C28_Witness ==
    \E h \in TxHashes, c \in Addr :
        LET tx == transactions[h] IN
        /\ Pending(h)
        /\ Len(forceFinalizeSigs[h]) = 2
        /\ ~AlreadySigned(forceFinalizeSigs[h], c)
        /\ balances[tx.from] = 0
        /\ ForceFinalizeErr(c, h) = ErrInsufficient
        /\ TotalBalance + tx.amount <= MaxFunds

\* C30: forceFinalize does not look at the expiry. On a PENDING record with
\* now > expiry a relayer's finalizeTx reverts with "Transaction expired",
\* while the forceFinalize of an approver (role held, 14 days elapsed, not
\* yet in the ballot) returns unless it is the third approval and the
\* sender lacks the amount; a step that settles a record after its expiry
\* is the third approval: it sets AUTO_FINALIZED and moves the amount from
\* the sender to the recipient.
C30_ExpiryBoundsFinalizeOnly ==
    /\ [](\A h \in TxHashes, c \in Addr :
            LET tx == transactions[h] IN
            (Pending(h) /\ now > tx.expiry) =>
                /\ HasRole(RELAYER_ROLE, c) => FinalizeTxErr(c, h) = ErrExpired
                /\ (/\ HasRole(MULTISIG_ROLE, c)
                    /\ now >= tx.submittedAt + FORCE_FINALIZE_DELAY
                    /\ ~AlreadySigned(forceFinalizeSigs[h], c)) =>
                       ForceFinalizeErr(c, h) =
                           (IF /\ Len(forceFinalizeSigs[h]) = MULTISIG_THRESHOLD - 1
                               /\ balances[tx.from] < tx.amount
                            THEN ErrInsufficient ELSE OK))
    /\ [][\A h \in TxHashes :
            LET tx == transactions[h] IN
            (Settles(h) /\ now > tx.expiry) =>
                /\ transactions'[h].status = "AUTO_FINALIZED"
                /\ transactions'[h].finalizedAt = now
                /\ Len(forceFinalizeSigs'[h]) = MULTISIG_THRESHOLD
                /\ balances' = Transferred(balances, tx.from, tx.to, tx.amount)]_vars

\* C30 witness: a record of identity 2 for identity 3 was resolved to
\* AUTO_FINALIZED after its expiry with three approvals, and the recipient
\* holds the amount.
C30_Witness ==
    \E h \in TxHashes :
        LET tx == transactions[h] IN
        /\ tx.status = "AUTO_FINALIZED"
        /\ tx.finalizedAt > tx.expiry
        /\ Len(forceFinalizeSigs[h]) = 3
        /\ tx.from = 2 /\ tx.to = 3
        /\ balances[3] >= tx.amount
        /\ nonces[2] >= 1

\* The serverTxIds of the relay records.
ServerTxIds == 1..Len(relayTransactions)

\* Handler j pushes a FAILED result for record i in this step.
ReportsFailed(j, i) ==
    /\ Len(pushes'[j].results) = Len(pushes[j].results) + 1
    /\ pushes'[j].results[Len(pushes'[j].results)].serverTxId = i
    /\ pushes'[j].results[Len(pushes'[j].results)].status = "FAILED"

\* What C29 and its amendment share. A relay record is PENDING without a
\* hash or SUBMITTED with the hash of a mined call that registered its
\* authorization; records are never removed and their fields never change;
\* a status changes only from PENDING to SUBMITTED, in the save of a handler
\* that holds the receipt of its own submitOfflineTx call, whose hash is
\* stored; a handler gets a receipt only in the step in which its call
\* registers the record on the contract; a push starts with exactly the
\* records that are PENDING at that moment and handles them one by one,
\* each by a contract call that either registers it or, reverting, is
\* reported FAILED with the contract's error.
PushMarksOnlyConfirmed ==
    /\ [](\A i \in ServerTxIds :
            LET doc == relayTransactions[i] IN
            /\ doc.status \in {"PENDING", "SUBMITTED"}
            /\ doc.status = "PENDING" => doc.onChainTxHash = NoReceipt
            /\ doc.status = "SUBMITTED" =>
                  /\ doc.onChainTxHash \in 1..minedTxs
                  /\ Registered(TxHashOf(doc.tx))
                  /\ transactions[TxHashOf(doc.tx)].relayer = Wallet)
    /\ [](\A j \in Handlers :
            pushes[j].receipt # NoReceipt =>
                /\ pushes[j].pc = "save"
                /\ pushes[j].receipt \in 1..minedTxs
                /\ Registered(TxHashOf(relayTransactions[Head(pushes[j].pendingTxs)].tx)))
    /\ [][/\ Len(relayTransactions') >= Len(relayTransactions)
          /\ \A i \in ServerTxIds :
                LET old == relayTransactions[i]
                    new == relayTransactions'[i]
                IN  /\ new.tx = old.tx /\ new.signature = old.signature
                    /\ new # old =>
                          /\ old.status = "PENDING" /\ new.status = "SUBMITTED"
                          /\ \E j \in Handlers :
                                /\ pushes[j].pc = "save"
                                /\ Head(pushes[j].pendingTxs) = i
                                /\ new.onChainTxHash = pushes[j].receipt
                                /\ PushSave(j)]_vars
    /\ [][\A j \in Handlers :
            /\ (pushes[j].receipt = NoReceipt /\ pushes'[j].receipt # NoReceipt) =>
                  LET doc == relayTransactions[Head(pushes[j].pendingTxs)] IN
                  /\ SubmitOfflineTxErr(Wallet, doc.tx, doc.signature) = OK
                  /\ Registers(TxHashOf(doc.tx))
                  /\ minedTxs' = minedTxs + 1
                  /\ pushes'[j].receipt = minedTxs'
            /\ (pushes[j].pc = "idle" /\ pushes'[j].pc # "idle") =>
                  \A i \in ServerTxIds :
                      relayTransactions[i].status = "PENDING" <=>
                          \E k \in 1..Len(pushes'[j].pendingTxs) : pushes'[j].pendingTxs[k] = i
            /\ (pushes[j].pc = "loop" /\ pushes[j].pendingTxs # << >> /\ pushes'[j] # pushes[j]) =>
                  LET i == Head(pushes[j].pendingTxs)
                      doc == relayTransactions[i]
                  IN  \/ Registers(TxHashOf(doc.tx)) /\ pushes'[j].pc = "save"
                      \/ /\ ReportsFailed(j, i)
                         /\ SubmitOfflineTxErr(Wallet, doc.tx, doc.signature) # OK
                         /\ pushes'[j].pendingTxs = Tail(pushes[j].pendingTxs)]_vars

\* C29 as stated: with the above, whenever a push's submission of a record
\* fails (the push reports FAILED for it), the stored record is PENDING.
C29_FailedStaysPending ==
    /\ PushMarksOnlyConfirmed
    /\ [][\A j \in Handlers, i \in ServerTxIds :
            ReportsFailed(j, i) => relayTransactions'[i].status = "PENDING"]_vars

\* C29 (amended): a relay record's status only moves PENDING -> SUBMITTED,
\* and it is set to SUBMITTED, with the on-chain transaction hash, only
\* after that push's own submitOfflineTx call was confirmed; a push whose
\* submission fails writes neither the record nor the contract and only
\* reports FAILED: the record stays as it was, PENDING, or SUBMITTED when an
\* overlapping push got its own submission confirmed; a record that is
\* still PENDING is submitted again by every later push.
C29_PushProtocol ==
    /\ PushMarksOnlyConfirmed
    /\ [][\A j \in Handlers, i \in ServerTxIds :
            ReportsFailed(j, i) =>
                /\ UNCHANGED <<relayTransactions, store, minedTxs>>
                /\ relayTransactions[i].status = "SUBMITTED" =>
                      \A k \in 1..Len(pushes[j].results) :
                          pushes[j].results[k].serverTxId # i]_vars

\* C29 witness: a push submitted the first record, saved it as SUBMITTED
\* with hash 1 and reported FAILED for the second, which the contract
\* refused and which is still PENDING; a later push has read it and is
\* about to submit it again.
C29_Witness ==
    /\ Len(relayTransactions) = 2
    /\ relayTransactions[1].status = "SUBMITTED"
    /\ relayTransactions[1].onChainTxHash = 1
    /\ relayTransactions[2].status = "PENDING"
    /\ \E j, k \in Handlers :
          /\ j # k
          /\ Len(pushes[j].results) = 2
          /\ pushes[j].results[1].status = "SUBMITTED"
          /\ pushes[j].results[2].status = "FAILED"
          /\ pushes[k].pc = "loop"
          /\ pushes[k].pendingTxs = <<2>>

\* Record h expires before its dispute window ends.
ShortLived(h) ==
    Registered(h) /\ transactions[h].expiry < transactions[h].submittedAt + DISPUTE_WINDOW

\* C31: an authorization that passes the other checks is registered exactly
\* when its expiry is > now, also when the expiry lies before now + 7 days;
\* on a PENDING record whose expiry is < submittedAt + 7 days a relayer's
\* finalizeTx reverts at every time, with "Dispute window active" while
\* now <= expiry and with "Transaction expired" afterwards; such a record
\* is never FINALIZED, and a step that changes its status makes it
\* REJECTED or AUTO_FINALIZED.
C31_ShortLivedNeverFinalized ==
    /\ [](\A p \in Payloads, c \in Addr :
            (/\ HasRole(RELAYER_ROLE, c) /\ p \in WellFormed
             /\ ~clientTxIdUsed[p.clientTxId] /\ nonces[p.from] = p.nonce) =>
                (SubmitOfflineTxErr(c, p, SignatureOf(p)) = OK <=> p.expiry > now))
    /\ [](\A h \in TxHashes :
            ShortLived(h) =>
                /\ transactions[h].status # "FINALIZED"
                /\ \A c \in Addr :
                      (Pending(h) /\ HasRole(RELAYER_ROLE, c)) =>
                          FinalizeTxErr(c, h) =
                              (IF now <= transactions[h].expiry
                               THEN ErrWindowActive ELSE ErrExpired))
    /\ [][\A h \in TxHashes :
            (ShortLived(h) /\ transactions'[h].status # transactions[h].status) =>
                /\ Pending(h)
                /\ transactions'[h].status \in {"REJECTED", "AUTO_FINALIZED"}]_vars

\* C31 witness: a record registered with an expiry before the end of its
\* dispute window is still PENDING after the window; its sender holds the
\* amount, finalizeTx on it reverts with "Transaction expired", and it has
\* collected an approval.
C31_Witness ==
    \E h \in TxHashes :
        LET tx == transactions[h] IN
        /\ ShortLived(h) /\ Pending(h)
        /\ now >= tx.submittedAt + DISPUTE_WINDOW
        /\ balances[tx.from] >= tx.amount
        /\ FinalizeTxErr(Deployer, h) = ErrExpired
        /\ Len(forceFinalizeSigs[h]) = 1

\* Record h declares a nonce its sender has already passed.
StaleNonce(h) == Pending(h) /\ transactions[h].nonce < nonces[transactions[h].from]

\* C32: a PENDING record whose declared nonce lies below its sender's
\* current nonce is settled like any other: a relayer's finalizeTx returns
\* when the window has elapsed, the expiry has not passed and the sender
\* holds the amount, an approver's forceFinalize returns after the delay
\* when the approver is new to the ballot (at the third approval, when the
\* sender holds the amount), and the step that settles such a record raises
\* the sender's nonce once more.
C32_NonceNotCheckedAtSettlement ==
    /\ [](\A h \in TxHashes, c \in Addr :
            LET tx == transactions[h] IN
            StaleNonce(h) =>
                /\ (/\ HasRole(RELAYER_ROLE, c)
                    /\ now >= tx.submittedAt + DISPUTE_WINDOW
                    /\ now <= tx.expiry
                    /\ balances[tx.from] >= tx.amount) => FinalizeTxErr(c, h) = OK
                /\ (/\ HasRole(MULTISIG_ROLE, c)
                    /\ now >= tx.submittedAt + FORCE_FINALIZE_DELAY
                    /\ ~AlreadySigned(forceFinalizeSigs[h], c)
                    /\ (Len(forceFinalizeSigs[h]) < MULTISIG_THRESHOLD - 1
                        \/ balances[tx.from] >= tx.amount)) => ForceFinalizeErr(c, h) = OK)
    /\ [][\A h \in TxHashes :
            (StaleNonce(h) /\ Settles(h)) =>
                nonces'[transactions[h].from] = nonces[transactions[h].from] + 1]_vars

\* C32 witness: two records of one sender that declare the same nonce were
\* both settled, the first by finalizeTx, and the sender's nonce stands two
\* above the nonce they declare.
C32_Witness ==
    \E h, g \in TxHashes :
        /\ SameSender(h, g)
        /\ transactions[h].nonce = transactions[g].nonce
        /\ transactions[h].clientTxId # transactions[g].clientTxId
        /\ transactions[h].status = "FINALIZED"
        /\ transactions[g].status \in {"FINALIZED", "AUTO_FINALIZED"}
        /\ transactions[g].finalizedAt >= transactions[h].finalizedAt
        /\ nonces[transactions[h].from] = transactions[h].nonce + 2

\* ---------------------------------------------------------------------------
\* C33. Ledger solvency: in every reachable state, the state seen by the
\* recipient during withdraw's external payout included, the ledger balances
\* add up to the ether the contract holds (what deposits brought in less what
\* withdraw paid out); a step of submitOfflineTx, finalizeTx, forceFinalize
\* or disputeTx changes neither that sum nor the ether held.
LedgerStep ==
    \/ transactions' # transactions
    \/ forceFinalizeSigs' # forceFinalizeSigs
    \/ clientTxIdUsed' # clientTxIdUsed
    \/ nonces' # nonces

C34_RejectedHasEmptyBallot ==
    /\ [](\A h \in TxHashes :
            /\ transactions[h].status = "REJECTED" => forceFinalizeSigs[h] = << >>
            /\ forceFinalizeSigs[h] # << >> =>
                  \A c \in Addr : DisputeTxErr(c, h) # OK
            /\ transactions[h].status = "FINALIZED" =>
                  Len(forceFinalizeSigs[h]) \in 0..(MULTISIG_THRESHOLD - 1))
    /\ [][/\ now' >= now
          /\ \A h \in TxHashes :
               /\ Approves(h) => now >= transactions[h].submittedAt + FORCE_FINALIZE_DELAY
               /\ (Pending(h) /\ transactions'[h].status = "REJECTED") =>
                     now < transactions[h].submittedAt + DISPUTE_WINDOW]_vars

\* C34 witness: a REJECTED record with an empty ballot next to a FINALIZED
\* record carrying 2 approvals, on which no party's dispute returns.
C34_Witness ==
    \E r, g \in TxHashes :
        /\ transactions[r].status = "REJECTED" /\ forceFinalizeSigs[r] = << >>
        /\ transactions[g].status = "FINALIZED" /\ Len(forceFinalizeSigs[g]) = 2
        /\ DisputeTxErr(transactions[g].from, g) # OK

\* ---------------------------------------------------------------------------
\* C35. Dedup tokens and records correspond one to one: in every reachable
\* state clientTxIdUsed[t] holds exactly when one stored record carries the
\* token t, no two records carry the same token, and so no registration is
\* rejected with "Transaction already exists": whenever the derived
\* identifier is taken the token is used, and the token check comes first.
RecordsWithToken(t) == {h \in TxHashes : Registered(h) /\ transactions[h].clientTxId = t}

C35_TokensMatchRecords ==
    /\ \A t \in Tokens :
          /\ Cardinality(RecordsWithToken(t)) <= 1
          /\ clientTxIdUsed[t] <=> Cardinality(RecordsWithToken(t)) = 1
    /\ \A p \in AllPayloads :
          /\ (TxHashOf(p) \in TxHashes /\ Registered(TxHashOf(p))) => clientTxIdUsed[p.clientTxId]
          /\ \A c \in Addr, sig \in AnySignature(p) :
                SubmitOfflineTxErr(c, p, sig) # ErrDuplicate

\* C35 witness: two records with different tokens are stored; registering
\* one of them again, and registering another authorization under its
\* token, both stop at the token check.
C35_Witness ==
    \E p, q, r \in WellFormed :
        /\ Registered(TxHashOf(p)) /\ Registered(TxHashOf(r))
        /\ p.clientTxId # r.clientTxId
        /\ q.clientTxId = p.clientTxId /\ ~Registered(TxHashOf(q))
        /\ Cardinality(RecordsWithToken(p.clientTxId)) = 1
        /\ Cardinality(RecordsWithToken(r.clientTxId)) = 1
        /\ SubmitOfflineTxErr(Deployer, p, SignatureOf(p)) = ErrTokenUsed
        /\ SubmitOfflineTxErr(Deployer, q, SignatureOf(q)) = ErrTokenUsed

\* ---------------------------------------------------------------------------
\* The result handler j has pushed for relay record i in its current push
\* (a push handles a record once).
HandledBy(j, i) ==
    {k \in 1..Len(pushes[j].results) : pushes[j].results[k].serverTxId = i}

ResultOf(j, i) == pushes[j].results[CHOOSE k \in HandledBy(j, i) : TRUE]

\* C36 as stated: when two overlapping pushes have both handled relay
\* record i, one of them had its submission accepted, the other was
\* rejected with "ClientTxId already used", and the record is SUBMITTED
\* with the hash of the accepted submission.
C36_ExactlyOneAccepted ==
    \A j, k \in Handlers, i \in ServerTxIds :
        (j # k /\ HandledBy(j, i) # {} /\ HandledBy(k, i) # {}) =>
            \E a, b \in {j, k} :
                /\ a # b
                /\ ResultOf(a, i).status = "SUBMITTED"
                /\ ResultOf(b, i).status = "FAILED"
                /\ ResultOf(b, i).error = ErrTokenUsed
                /\ relayTransactions[i].status = "SUBMITTED"
                /\ relayTransactions[i].onChainTxHash = ResultOf(a, i).onChainTxHash

\* C36 (amended): for any interleaving of two /sync/push handlers every
\* mined submission registers an authorization that was not registered
\* before (mined submissions and engine records are equal in number), and at
\* most one submission of a relay record is accepted; a submission made
\* after the authorization was registered is rejected with "ClientTxId
\* already used" while now < expiry and with "Transaction expired" from the
\* expiry on (one made before may have been rejected by any check); when
\* both handlers have handled the record and one was accepted, the other
\* reported FAILED and the record is SUBMITTED with the hash of the accepted
\* submission, which it keeps.
C36_RegisteredAtMostOnce ==
    /\ [](minedTxs = Cardinality({h \in TxHashes : Registered(h)}))
    /\ [](\A j, k \in Handlers, i \in ServerTxIds :
            /\ Cardinality(HandledBy(j, i)) <= 1
            /\ (j # k /\ pushes[j].pc = "save" /\ Head(pushes[j].pendingTxs) = i) =>
                  /\ relayTransactions[i].status = "PENDING"
                  /\ ~(pushes[k].pc = "save" /\ Head(pushes[k].pendingTxs) = i)
                  /\ HandledBy(k, i) # {} => ResultOf(k, i).status = "FAILED"
            /\ (j # k /\ HandledBy(j, i) # {} /\ HandledBy(k, i) # {}
                 /\ ResultOf(j, i).status = "SUBMITTED") =>
                  /\ ResultOf(k, i).status = "FAILED"
                  /\ relayTransactions[i].status = "SUBMITTED"
                  /\ relayTransactions[i].onChainTxHash = ResultOf(j, i).onChainTxHash)
    /\ [][\A i \in ServerTxIds :
            /\ relayTransactions[i].status = "SUBMITTED" =>
                  relayTransactions'[i] = relayTransactions[i]
            /\ \A j \in Handlers :
                  (ReportsFailed(j, i) /\ Registered(TxHashOf(relayTransactions[i].tx))) =>
                      ResultOf(j, i)'.error =
                          (IF now >= relayTransactions[i].tx.expiry
                           THEN ErrExpired ELSE ErrTokenUsed)]_vars

\* C36 witness: both handlers read record 1 as PENDING; one submission was
\* accepted and saved as SUBMITTED with hash 1, the other was rejected with
\* "ClientTxId already used".
C36_Witness ==
    \E j, k \in Handlers :
        /\ j # k
        /\ HandledBy(j, 1) # {} /\ HandledBy(k, 1) # {}
        /\ ResultOf(j, 1).status = "SUBMITTED"
        /\ ResultOf(k, 1).status = "FAILED"
        /\ ResultOf(k, 1).error = ErrTokenUsed
        /\ relayTransactions[1].status = "SUBMITTED"
        /\ relayTransactions[1].onChainTxHash = ResultOf(j, 1).onChainTxHash
        /\ minedTxs = 1

\* ---------------------------------------------------------------------------
\* Relay records i and k hold the same signed authorization.
Twins(i, k) ==
    /\ i # k
    /\ relayTransactions[i].tx = relayTransactions[k].tx
    /\ relayTransactions[i].signature = relayTransactions[k].signature

\* C37: /offline/tx does not deduplicate: while the collection has room, a
\* verified authorization is stored as a new PENDING record also when a
\* record with the same authorization exists. Of two records with the same
\* authorization at most one is ever SUBMITTED; once one is SUBMITTED it
\* stays so and the other is PENDING in every later state, every push that
\* starts reads it again, and every submission of it is rejected by the
\* contract and reported FAILED.
C37_DuplicateStaysPending ==
    /\ [](\A p \in PushPayloads :
            (Len(relayTransactions) < MaxQueued /\ OfflineTxErr(p, SignatureOf(p)) = OK) =>
                ENABLED (/\ OfflineTx(p, SignatureOf(p))
                         /\ Len(relayTransactions') = Len(relayTransactions) + 1
                         /\ relayTransactions'[Len(relayTransactions')].status = "PENDING"))
    /\ [](\A i, k \in ServerTxIds :
            (Twins(i, k) /\ relayTransactions[i].status = "SUBMITTED") =>
                relayTransactions[k].status = "PENDING")
    /\ [][\A i, k \in ServerTxIds :
            (Twins(i, k) /\ relayTransactions[i].status = "SUBMITTED") =>
                /\ Twins(i, k)' /\ relayTransactions'[i].status = "SUBMITTED"
                /\ \A j \in Handlers :
                    /\ (pushes[j].pc = "idle" /\ pushes'[j].pc = "loop") =>
                          \E n \in 1..Len(pushes'[j].pendingTxs) : pushes'[j].pendingTxs[n] = k
                    /\ (pushes[j].pc = "loop" /\ pushes[j].pendingTxs # << >>
                        /\ Head(pushes[j].pendingTxs) = k) =>
                          /\ SubmitOfflineTxErr(Wallet, relayTransactions[k].tx,
                                                relayTransactions[k].signature)
                                \in {ErrTokenUsed, ErrExpired}
                          /\ pushes'[j] # pushes[j] =>
                                ReportsFailed(j, k) /\ UNCHANGED <<relayTransactions, store>>]_vars

\* C37 witness: the same authorization was posted twice; record 1 is
\* SUBMITTED, record 2 is PENDING, a push that started afterwards has
\* reported FAILED for it and the next push has read it again.
C37_Witness ==
    /\ Len(relayTransactions) = 2
    /\ Twins(1, 2)
    /\ relayTransactions[1].status = "SUBMITTED"
    /\ relayTransactions[2].status = "PENDING"
    /\ \E j, k \in Handlers :
          /\ j # k
          /\ pushes[j].results = <<[serverTxId |-> 2, status |-> "FAILED", error |-> ErrTokenUsed]>>
          /\ pushes[k].pc = "loop"
          /\ pushes[k].pendingTxs = <<2>>
          /\ pushes[k].results = << >>

\* ---------------------------------------------------------------------------
\* server.js: the file-backed offline queue. readJsonFile gives the content
\* a file has when it is read (an absent file reads as the empty list),
\* writeJsonFile replaces the content; a handler works on its own copy
\* between the two.

\* queue.filter(tx => tx.status === 'pending')
PendingOf(queue) == SelectSeq(queue, LAMBDA tx : tx.status = "pending")

\* The loop of /api/transaction/sync on one entry: tx.status = 'completed'.
Completed(tx) == [tx EXCEPT !.status = "completed"]

\* The loop over the pending entries, which are the queue's own objects:
\* each is marked completed in the queue and pushed to the history.
SyncedQueue(queue) ==
    [i \in 1..Len(queue) |-> IF queue[i].status = "pending" THEN Completed(queue[i]) ELSE queue[i]]

SyncedHistory(queue, history) ==
    LET pendingTxs == PendingOf(queue)
    IN  history \o [i \in 1..Len(pendingTxs) |-> Completed(pendingTxs[i])]

\* POST /api/transaction/queue up to the write: the transaction gets a fresh
\* id, the queue file is read and the transaction pushed to the copy.
QueueRead(r) ==
    /\ requests[r].pc = "idle"
    /\ uuids < MaxUuids
    /\ uuids' = uuids + 1
    /\ requests' = [requests EXCEPT ![r] =
            [pc |-> "queueWrite",
             queue |-> Append(OFFLINE_QUEUE_FILE, [id |-> uuids + 1, status |-> "pending"]),
             history |-> << >>,
             transaction |-> uuids + 1]]
    /\ UNCHANGED <<now, store, roles, reentrancyStatus, payout, relay, contractBalance,
                 OFFLINE_QUEUE_FILE, TRANSACTION_HISTORY_FILE, responses>>

\* The rest of it: the copy is written back and the request is answered
\* with success and the transaction's id.
QueueWrite(r) ==
    /\ requests[r].pc = "queueWrite"
    /\ OFFLINE_QUEUE_FILE' = requests[r].queue
    /\ responses' = responses \cup {requests[r].transaction}
    /\ requests' = [requests EXCEPT ![r] = IdleRequest]
    /\ UNCHANGED <<now, store, roles, reentrancyStatus, payout, relay, contractBalance,
                 TRANSACTION_HISTORY_FILE, uuids>>

\* POST /api/transaction/sync: the queue file is read; with no pending
\* entry the request is answered at once.
SyncRead(r) ==
    /\ requests[r].pc = "idle"
    /\ IF PendingOf(OFFLINE_QUEUE_FILE) = << >>
       THEN UNCHANGED requests
       ELSE requests' = [requests EXCEPT ![r] =
                [pc |-> "syncHistory", queue |-> OFFLINE_QUEUE_FILE, history |-> << >>,
                 transaction |-> 0]]
    /\ UNCHANGED <<now, store, roles, reentrancyStatus, payout, relay, contractBalance,
                 OFFLINE_QUEUE_FILE, TRANSACTION_HISTORY_FILE, responses, uuids>>

\* The history file is read and the loop runs on the two copies.
SyncReadHistory(r) ==
    /\ requests[r].pc = "syncHistory"
    /\ requests' = [requests EXCEPT ![r] =
            [pc |-> "syncWriteQueue",
             queue |-> SyncedQueue(requests[r].queue),
             history |-> SyncedHistory(requests[r].queue, TRANSACTION_HISTORY_FILE),
             transaction |-> 0]]
    /\ UNCHANGED <<now, store, roles, reentrancyStatus, payout, relay, contractBalance,
                 OFFLINE_QUEUE_FILE, TRANSACTION_HISTORY_FILE, responses, uuids>>

\* The queue copy is written back.
SyncWriteQueue(r) ==
    /\ requests[r].pc = "syncWriteQueue"
    /\ OFFLINE_QUEUE_FILE' = requests[r].queue
    /\ requests' = [requests EXCEPT ![r].pc = "syncWriteHistory"]
    /\ UNCHANGED <<now, store, roles, reentrancyStatus, payout, relay, contractBalance,
                 TRANSACTION_HISTORY_FILE, responses, uuids>>

\* The history copy is written back and the request is answered.
SyncWriteHistory(r) ==
    /\ requests[r].pc = "syncWriteHistory"
    /\ TRANSACTION_HISTORY_FILE' = requests[r].history
    /\ requests' = [requests EXCEPT ![r] = IdleRequest]
    /\ UNCHANGED <<now, store, roles, reentrancyStatus, payout, relay, contractBalance,
                 OFFLINE_QUEUE_FILE, responses, uuids>>

\* Two requests at a time, each a queue or a sync request.
NextQ ==
    \/ \E r \in Requests : QueueRead(r)
    \/ \E r \in Requests : QueueWrite(r)
    \/ \E r \in Requests : SyncRead(r)
    \/ \E r \in Requests : SyncReadHistory(r)
    \/ \E r \in Requests : SyncWriteQueue(r)
    \/ \E r \in Requests : SyncWriteHistory(r)

SpecQ == Init /\ [][NextQ]_vars

\* The ids of the entries of a list.
IdsOf(list) == {list[i].id : i \in 1..Len(list)}

\* How often id occurs in a list.
Occurrences(list, id) == Cardinality({i \in 1..Len(list) : list[i].id = id})

\* C38: for any interleaving of /api/transaction/queue and
\* /api/transaction/sync requests, every transaction whose queue request
\* was answered with success is in the queue file, and no entry is appended
\* to the history more than once; an entry of the history is marked
\* completed in it.
C38_QueueKeepsEveryTransaction ==
    /\ responses \subseteq IdsOf(OFFLINE_QUEUE_FILE)
    /\ \A id \in 1..uuids :
          /\ Occurrences(OFFLINE_QUEUE_FILE, id) <= 1
          /\ Occurrences(TRANSACTION_HISTORY_FILE, id) <= 1
    /\ \A i \in 1..Len(TRANSACTION_HISTORY_FILE) :
          TRANSACTION_HISTORY_FILE[i].status = "completed"
====
